---- MODULE Spec2Model ----
(***************************************************************************)
(* A model of the accustom library: the handler wrapper installed by       *)
(* decorator() (accustom/decorators.py), the response protocol             *)
(* cfnresponse / ResponseObject.send and the request validator             *)
(* is_valid_event (accustom/response.py).                                  *)
(*                                                                         *)
(* Strings of the program are TLA+ strings.  A message built by an         *)
(* f-string is the sequence of its pieces, so that "the reason contains    *)
(* the exception text" is a statement about the pieces.  Python's None is  *)
(* the string None for string-valued fields, the empty sequence NoReason   *)
(* for a reason, and the record NoData for a data block.                   *)
(***************************************************************************)
EXTENDS Integers, Sequences, FiniteSets, TLC

VARIABLES
    enforceUseOfClass,          \* decorator argument
    hideResourceDeleteFailure,  \* decorator argument
    timeoutFunction,            \* decorator argument
    decoratorHandleDelete,      \* rdecorator argument
    expectedProperties,         \* rdecorator argument
    genUUID,                    \* rdecorator argument
    event,        \* event[i]: the request object handed to invocation i
    context,      \* context[i]: the Lambda context of invocation i, or None
    pc,           \* pc[i]: the position of invocation i in handler_wrapper
    raw,          \* raw[i]: what user logic did (returned value or raised)
    normalized,   \* normalized[i]: result after the isinstance block
    result,       \* result[i]: the local variable result of handler_wrapper
    pending,      \* pending[i]: the exception the first send raised
    exc,          \* exc[i]: the exception that escaped handler_wrapper
    ret,          \* ret[i]: the value handler_wrapper returned
    funcCalls,    \* funcCalls[i]: number of calls of the user function
    readTimeout,  \* read_timeout (ms) of the chained invoke
    invokes,      \* number of b_lambda.invoke calls that started a child
    response,     \* what b_lambda.invoke gave the parent: a response or an exception
    sends,        \* log of every cfnresponse call, in order
    call,         \* the last direct call of a library function: arguments and outcome
    rconfig       \* the redaction config object built so far

config == <<enforceUseOfClass, hideResourceDeleteFailure, timeoutFunction,
            decoratorHandleDelete, expectedProperties, genUUID>>
\* the state of direct calls of the library's functions and classes
lib == <<call, rconfig>>
\* the state of the wrapped handler
handler == <<enforceUseOfClass, hideResourceDeleteFailure, timeoutFunction,
             decoratorHandleDelete, expectedProperties, genUUID,
             event, context, pc, raw, normalized, result, pending, exc, ret,
             funcCalls, readTimeout, invokes, response, sends>>
vars == <<enforceUseOfClass, hideResourceDeleteFailure, timeoutFunction,
          decoratorHandleDelete, expectedProperties, genUUID,
          event, context, pc, raw, normalized, result, pending, exc, ret,
          funcCalls, readTimeout, invokes, response, sends, call, rconfig>>

-----------------------------------------------------------------------------
(* Values *)

None == "None"
NoReason == <<>>

SUCCESS == "SUCCESS"
FAILED == "FAILED"

CREATE == "Create"
UPDATE == "Update"
DELETE == "Delete"

Parent == "parent"
Child == "child"
Invocations == {Parent, Child}

FuncName == "function_handler"

\* Size of the strings that stand for an over-long text.
HugeLen == 5000

HugeText == "<huge exception text>"
HugeId == "<huge physical id>"
HugeValue == "<huge data value>"
HugeStrings == {HugeText, HugeId, HugeValue}

StrLen(s) == IF s \in HugeStrings THEN HugeLen ELSE Len(s)

\* A string of n characters
RECURSIVE Filler(_)
Filler(n) ==
    IF n = 0 THEN ""
    ELSE IF n % 2 = 0 THEN LET h == Filler(n \div 2) IN h \o h
    ELSE "x" \o Filler(n - 1)

RECURSIVE PiecesLen(_)
PiecesLen(q) == IF q = <<>> THEN 0 ELSE StrLen(Head(q)) + PiecesLen(Tail(q))

Contains(q, s) == \E n \in DOMAIN q : q[n] = s

\* The str a sequence of pieces stands for
RECURSIVE Joined(_)
Joined(q) == IF q = <<>> THEN "" ELSE Head(q) \o Joined(Tail(q))

\* A value of a dict: a string, or a nested dict with its items.
Leaf(t) == [isDict |-> FALSE, leaf |-> t, sub |-> <<>>]
Sub(items) == [isDict |-> TRUE, leaf |-> "", sub |-> items]

\* A data block: kind is the Python type, items the (key, value) pairs of a
\* dict in the order of the dict, json whether json.dumps accepts the values.
NoData == [kind |-> "NoneType", items |-> <<>>, json |-> TRUE]
Dict(items) == [kind |-> "dict", items |-> items, json |-> TRUE]
UnserializableDict ==
    [kind |-> "dict", items |-> << <<"when", Leaf("<datetime>")>> >>, json |-> FALSE]
NotADict == [kind |-> "list", items |-> <<>>, json |-> TRUE]

SmallDict == Dict(<< <<"sum", Leaf("3.0")>> >>)
BigDict == Dict(<< <<"blob", Leaf(HugeValue)>> >>)
ExcDict == Dict(<< <<"ExceptionThrown", Leaf("KeyError")>> >>)
NestedDict ==
    Dict(<< <<"Address", Sub(<< <<"Street", Leaf("Apple Street")>> >>)>>,
            <<"Address.Street", Leaf("explicit")>>,
            <<"Owner", Sub(<< <<"Name", Leaf("Ann")>> >>)>> >>)

\* key in dict, and dict[key], for the items of a dict
HasItem(items, k) == \E n \in DOMAIN items : items[n][1] = k
ItemOf(items, k) == items[CHOOSE n \in DOMAIN items : items[n][1] = k][2]

HasKey(d, k) == HasItem(d.items, k)

ValueOf(d, k) == ItemOf(d.items, k).leaf

\* Length of json.dumps of the items of a dict, without the braces:
\* "key": value for each item, joined by a comma and a space.
RECURSIVE ItemsLen(_)
ItemsLen(items) ==
    IF items = <<>> THEN 0
    ELSE LET p == Head(items)
             rest == Tail(items)
         IN  StrLen(p[1]) + 4
             + (IF p[2].isDict THEN 2 + ItemsLen(p[2].sub) ELSE 2 + StrLen(p[2].leaf))
             + (IF rest = <<>> THEN 0 ELSE 2 + ItemsLen(rest))

-----------------------------------------------------------------------------
(* Request objects *)

RequiredKeys ==
    {"RequestType", "ResponseURL", "StackId", "RequestId", "ResourceType",
     "LogicalResourceId"}

BaseEvent(rt, url) ==
    [RequestType |-> rt, ResponseURL |-> url, StackId |-> "arn:stack/1",
     RequestId |-> "req-1", ResourceType |-> "Custom::Thing",
     LogicalResourceId |-> "Logical1"]

\* The keys of a request whose values are dicts of properties
PropKeys == {"ResourceProperties", "OldResourceProperties"}

WithKey(e, k, v) == (k :> v) @@ e
WithoutKey(e, k) == [j \in DOMAIN e \ {k} |-> e[j]]

\* urllib.parse.urlparse(url).scheme
UrlScheme(url) ==
    CASE url = "https://cb.example/r1" -> "https"
      [] url = "http://cb.example/r1" -> "http"
      [] url = "ftp://cb.example/r1" -> "ftp"
      [] OTHER -> ""

GoodUrl == "https://cb.example/r1"
Urls == {"https://cb.example/r1", "http://cb.example/r1", "ftp://cb.example/r1",
         "cb.example/r1"}
RequestTypes == {CREATE, UPDATE, DELETE, "Replace"}

\* ResourceProperties whose JSON text is longer than an envelope may be
LargeProperties == ("Blob" :> HugeValue)

\* The requests an invocation is started with: every request type and URL,
\* with and without a PhysicalResourceId, each required key removed, and
\* requests with large ResourceProperties.
Events ==
    LET full == {BaseEvent(rt, u) : rt \in RequestTypes, u \in Urls}
        withId == {WithKey(e, "PhysicalResourceId", "phys-1") : e \in full}
        holes == {WithoutKey(WithKey(BaseEvent(rt, GoodUrl), "PhysicalResourceId", "phys-1"), k) :
                     rt \in {CREATE, DELETE}, k \in RequiredKeys}
        large == {WithKey(WithKey(BaseEvent(rt, GoodUrl), "PhysicalResourceId", "phys-1"),
                          "ResourceProperties", LargeProperties) : rt \in {CREATE, DELETE}}
    IN  full \cup withId \cup holes \cup large

is_valid_event(e) ==
    IF ~(RequiredKeys \subseteq DOMAIN e) THEN FALSE
    ELSE IF e["RequestType"] \notin {CREATE, DELETE, UPDATE} THEN FALSE
    ELSE IF UrlScheme(e["ResponseURL"]) = ""
            \/ UrlScheme(e["ResponseURL"]) \notin {"http", "https"} THEN FALSE
    ELSE IF e["RequestType"] \in {UPDATE, DELETE}
            /\ "PhysicalResourceId" \notin DOMAIN e THEN FALSE
    ELSE TRUE

-----------------------------------------------------------------------------
(* Lambda context *)

\* A context is None or the name of the invocation it belongs to.
aws_request_id(ctx) == "lambda-req-" \o ctx
log_stream_name(ctx) == "2026/stream/" \o ctx

-----------------------------------------------------------------------------
(* Response protocol: accustom/response.py *)

CUSTOM_RESOURCE_SIZE_LIMIT == 4096

\* sys.getsizeof of the str that json.dumps returns: json.dumps escapes every
\* non-ASCII character, so the str is a compact ASCII object, 49 bytes of
\* header and terminator plus one byte per character.
StrObjectOverhead == 49
getsizeof(n) == n + StrObjectOverhead

\* ExceedsLimit as a strict test on the length of the text alone
ExceedsLimitTextOnly(size) == size - StrObjectOverhead > CUSTOM_RESOURCE_SIZE_LIMIT

\* line 200: json_responseSize >= CUSTOM_RESOURCE_SIZE_LIMIT
ExceedsLimit(size) == size >= CUSTOM_RESOURCE_SIZE_LIMIT

ResponseObject(data, physicalResourceId, reason, responseStatus) ==
    [data |-> data, physicalResourceId |-> physicalResourceId, reason |-> reason,
     responseStatus |-> responseStatus, squashPrintResponse |-> FALSE]

NoBody ==
    [Status |-> None, Reason |-> NoReason, PhysicalResourceId |-> None,
     StackId |-> None, RequestId |-> None, LogicalResourceId |-> None,
     Data |-> NoData, NoEcho |-> None]

\* lines 105-109: the keys of a collapsed child are added to the dict
\* under the dotted name, unless the dict has that key
RECURSIVE AddChildren(_, _, _)
AddChildren(items, item, children) ==
    IF children = <<>> THEN items
    ELSE LET c_item == Head(children)[1]
             new_key == item \o "." \o c_item
         IN  AddChildren(
                 IF ~HasItem(items, new_key)
                 THEN Append(items, <<new_key, Head(children)[2]>>)
                 ELSE items,
                 item, Tail(children))

\* line 110: del response_data[item]
DelItem(items, item) == SelectSeq(items, LAMBDA p : p[1] # item)

\* lines 102-112: the loop over list(response_data), the keys the dict had
\* when the loop started
RECURSIVE CollapseLoop(_, _)
CollapseLoop(items, keys) ==
    IF keys = <<>> THEN items
    ELSE LET item == Head(keys)
             v == ItemOf(items, item)
         IN  IF v.isDict
             THEN CollapseLoop(
                      DelItem(AddChildren(items, item,
                                          CollapseLoop(v.sub, [n \in DOMAIN v.sub |-> v.sub[n][1]])),
                              item),
                      Tail(keys))
             ELSE CollapseLoop(items, Tail(keys))

\* collapse_data, lines 83-112
collapse_data(d) ==
    [d EXCEPT !.items = CollapseLoop(d.items, [n \in DOMAIN d.items |-> d.items[n][1]])]

\* lines 171-181: the Reason of the envelope
CfnReason(status, reason, data, ctx) ==
    IF status = FAILED
    THEN LET r == IF reason # NoReason /\ data.kind # "NoneType"
                     /\ HasKey(data, "ExceptionThrown")
                  THEN <<"There was an exception thrown in execution of '",
                         ValueOf(data, "ExceptionThrown"), "'">>
                  ELSE IF reason = NoReason THEN <<"Unknown failure occurred">>
                  ELSE reason
         IN  IF ctx # None
             THEN r \o <<" -- See the details in CloudWatch Log Stream: ",
                         log_stream_name(ctx)>>
             ELSE r
    ELSE IF ctx # None /\ reason = NoReason
         THEN <<"See the details in CloudWatch Log Stream: ", log_stream_name(ctx)>>
         ELSE reason

\* lines 183-194: responseBody, for arguments that passed the checks above it
CfnBody(e, status, reason, data, pid, ctx, squash) ==
    LET id == IF pid = None /\ "PhysicalResourceId" \in DOMAIN e
              THEN e["PhysicalResourceId"] ELSE pid
    IN  [Status |-> status,
         Reason |-> CfnReason(status, reason, data, ctx),
         PhysicalResourceId |-> IF id \in {None, ""} THEN log_stream_name(ctx) ELSE id,
         StackId |-> e["StackId"],
         RequestId |-> e["RequestId"],
         LogicalResourceId |-> e["LogicalResourceId"],
         Data |-> IF data.kind # "NoneType" THEN collapse_data(data) ELSE NoData,
         NoEcho |-> IF squash THEN "true" ELSE None]

\* len(json.dumps(responseBody)): 97 characters of keys and punctuation for
\* the five keys that are always there, 14 more for Reason, 12 for Data and
\* 18 for NoEcho.  The backslash json.dumps puts before a quote inside a
\* string is not counted: the strings that decide the size limit hold none.
JsonLen(b) ==
    97 + StrLen(b.Status) + StrLen(b.PhysicalResourceId) + StrLen(b.StackId)
       + StrLen(b.RequestId) + StrLen(b.LogicalResourceId)
       + (IF b.Reason # NoReason THEN 14 + PiecesLen(b.Reason) ELSE 0)
       + (IF b.Data.kind # "NoneType" THEN 12 + ItemsLen(b.Data.items) ELSE 0)
       + (IF b.NoEcho # None THEN 18 ELSE 0)

Raised(name, text) == [exc |-> name, text |-> text, body |-> NoBody, put |-> FALSE]

\* cfnresponse, lines 152-245.  putOk: whether requests.put returns a
\* response with status code 200 (otherwise it raises, or returns another
\* status code).  The result names the exception raised (None when the
\* function returns), its text, the responseBody and whether the PUT was
\* issued.
cfnresponse(e, status, reason, data, pid, ctx, squash, putOk) ==
    IF ~is_valid_event(e)
    THEN Raised("NotValidRequestObjectException",
                <<"The event object passed is not a valid Request Object">>)
    ELSE IF pid = None /\ ctx = None /\ "PhysicalResourceId" \notin DOMAIN e
    THEN Raised("NoPhysicalResourceIdException",
                <<"Both physicalResourceId and context are None, and there is nophysicalResourceId in the event">>)
    ELSE IF status # FAILED /\ status # SUCCESS
    THEN Raised("InvalidResponseStatusException", <<status, " is not a valid status">>)
    ELSE IF data.kind \notin {"NoneType", "dict"}
    THEN Raised("DataIsNotDictException", <<"Data provided was not a dictionary">>)
    ELSE IF ctx = None
            /\ (IF pid = None /\ "PhysicalResourceId" \in DOMAIN e
                THEN e["PhysicalResourceId"] ELSE pid) \in {None, ""}
    THEN Raised("AttributeError", <<"'NoneType' object has no attribute 'log_stream_name'">>)
    ELSE LET body == CfnBody(e, status, reason, data, pid, ctx, squash)
             size == getsizeof(JsonLen(body))
         IN  IF ~body.Data.json
             THEN Raised("TypeError", <<"Object of type datetime is not JSON serializable">>)
             ELSE IF ExceedsLimit(size)
             THEN Raised("ResponseTooLongException",
                         <<"Response ended up ", ToString(size),
                           "n bytes long which exceeds ",
                           ToString(CUSTOM_RESOURCE_SIZE_LIMIT), "n bytes">>)
             ELSE IF ~putOk
             THEN [exc |-> "FailedToSendResponseException",
                   text |-> <<"Unable to send response to URL">>,
                   body |-> body, put |-> TRUE]
             ELSE [exc |-> None, text |-> <<>>, body |-> body, put |-> TRUE]

\* lines 209-212: the content-length header of the PUT, str(json_responseSize)
ContentLength(b) == getsizeof(JsonLen(b))

\* ResponseObject.send, lines 290-317
Send(r, e, ctx, putOk) ==
    cfnresponse(e, r.responseStatus, r.reason, r.data, r.physicalResourceId, ctx,
                r.squashPrintResponse, putOk)

-----------------------------------------------------------------------------
(* User logic: what func(event, context) can do *)

\* kind "raise": func raised an Exception whose str() is val.
\* kind "return": func returned a value of Python type type; val is its
\* text for a bool, a str or an int, data the value when it is a dict, ro
\* the value when it is a ResponseObject.
NoObject == ResponseObject(NoData, None, NoReason, None)
Raise(text) == [kind |-> "raise", type |-> "Exception", val |-> text, data |-> NoData, ro |-> NoObject]
Return(type, val) == [kind |-> "return", type |-> type, val |-> val, data |-> NoData, ro |-> NoObject]
ReturnDict(d) == [kind |-> "return", type |-> "dict", val |-> None, data |-> d, ro |-> NoObject]
ReturnObject(r) == [kind |-> "return", type |-> "ResponseObject", val |-> None, data |-> NoData, ro |-> r]
NotRun == [kind |-> "none", type |-> None, val |-> None, data |-> NoData, ro |-> NoObject]

\* ResponseObjects user logic may return.  The constructor rejects a data
\* that is not a dict and a status that is not SUCCESS or FAILED, but the
\* attributes can be assigned afterwards, and send checks them again.
UserObjects ==
    {ResponseObject(NoData, None, NoReason, SUCCESS),
     ResponseObject(NoData, "user-id", NoReason, SUCCESS),
     ResponseObject(SmallDict, "user-id", NoReason, SUCCESS),
     ResponseObject(NoData, None, <<"user reason">>, FAILED),
     ResponseObject(NoData, "user-id", <<"user reason">>, FAILED),
     ResponseObject(ExcDict, None, NoReason, FAILED),
     ResponseObject(BigDict, None, NoReason, SUCCESS),
     ResponseObject(UnserializableDict, None, NoReason, SUCCESS),
     ResponseObject(NotADict, None, NoReason, SUCCESS),
     ResponseObject(NoData, None, NoReason, "COMPLETE"),
     ResponseObject(NoData, "", NoReason, SUCCESS),
     ResponseObject(NoData, HugeId, NoReason, SUCCESS),
     ResponseObject(NoData, HugeId, <<"user reason">>, FAILED),
     [ResponseObject(SmallDict, None, NoReason, SUCCESS) EXCEPT !.squashPrintResponse = TRUE]}

Outcomes ==
    {Raise("boom"), Raise(HugeText),
     Return("bool", "False"), Return("bool", "True"), Return("NoneType", "None"),
     Return("str", "text"), Return("int", "0"), Return("list", "[]"),
     ReturnDict(SmallDict), ReturnDict(BigDict), ReturnDict(UnserializableDict),
     ReturnDict(NestedDict)}
    \cup {ReturnObject(r) : r \in UserObjects}

\* str(uuid4())
Uuid == "6f1c1a2e-uuid4"

ClassName(o) == "<class '" \o o.type \o "'>"

-----------------------------------------------------------------------------
(* decorator.handler_wrapper: the steps between two external calls *)

\* ExceptionResult with a reason that leaves out str(e)
ExceptionResultNoText(o, ctx) ==
    ResponseObject(NoData, IF ctx = None THEN Uuid ELSE None,
                   <<"Function ", FuncName, " failed due to exception">>, FAILED)

\* lines 209-216: the except clause around func
ExceptionResult(o, ctx) ==
    ResponseObject(NoData, IF ctx = None THEN Uuid ELSE None,
                   <<"Function ", FuncName, " failed due to exception \"", o.val, "\"">>,
                   FAILED)

\* IsFalse as the truth test "not result" instead of "result is False"
IsFalsy(o) == o.val \in {"False", "None", "0", "[]"}

\* line 235: result is False
IsFalse(o) == o.type = "bool" /\ o.val = "False"

\* lines 235-252: the coercion of a value that is no ResponseObject
Coerce(o) ==
    IF IsFalse(o)
    THEN ResponseObject(NoData, None, <<"Function ", FuncName, " returned False.">>, FAILED)
    ELSE IF o.type = "dict" THEN ResponseObject(o.data, None, NoReason, SUCCESS)
    ELSE IF o.type = "str"
    THEN ResponseObject(Dict(<< <<"Return", Leaf(o.val)>> >>), None, NoReason, SUCCESS)
    ELSE IF o.type = "NoneType" \/ (o.type = "bool" /\ o.val = "True")
    THEN ResponseObject(NoData, None, NoReason, SUCCESS)
    ELSE ResponseObject(NoData, None,
             <<"Return value from Function ", FuncName, " is of unsupported type ",
               ClassName(o)>>, FAILED)

\* lines 221-227
NoContextFailure(o) ==
    ResponseObject(NoData, None,
        <<"Response Object of type ", ClassName(o),
          " was not a ResponseObject and there is no Lambda Context">>, FAILED)

\* lines 228-234
EnforceFailure(o) ==
    ResponseObject(NoData, None,
        <<"Response Object of type ", ClassName(o),
          " was not a ResponseObject instance and enforceUseOfClass set to true">>,
        FAILED)

\* Normalize without the implicit enforcement of lines 221-227
NormalizeNoImplicit(r, o, ctx, enforce) ==
    IF o.type = "ResponseObject" \/ o.kind = "raise" THEN r
    ELSE IF enforce THEN EnforceFailure(o)
    ELSE Coerce(o)

\* lines 218-252: the isinstance block; r is result before it
Normalize(r, o, ctx, enforce) ==
    IF o.type = "ResponseObject" \/ o.kind = "raise" THEN r
    ELSE IF ctx = None THEN NoContextFailure(o)
    ELSE IF enforce THEN EnforceFailure(o)
    ELSE Coerce(o)

CleanupReason ==
    <<"There may be resources created by this Custom Resource that have not been cleaned",
      "up despite the fact this resource is in DELETE_COMPLETE">>

\* DeleteGuard that does not look at the request type
DeleteGuardAnyRequest(r, e, hide) ==
    IF r.responseStatus = FAILED /\ hide
    THEN ResponseObject(NoData, r.physicalResourceId, CleanupReason, SUCCESS)
    ELSE r

\* lines 254-272: hide the failure of a DELETE
DeleteGuard(r, e, hide) ==
    IF e["RequestType"] = DELETE /\ r.responseStatus = FAILED /\ hide
    THEN ResponseObject(NoData, r.physicalResourceId, CleanupReason, SUCCESS)
    ELSE r

\* lines 276-311 and 315-323: the envelope an except clause of the first
\* send builds, for the exception x = [exc, text] that send raised
Rewrite(r, x) ==
    LET message ==
            CASE x.exc = "NoPhysicalResourceIdException" ->
                   <<"An unexpected error has occurred, No Physical Resource ID provided in response.">>
              [] x.exc = "InvalidResponseStatusException" ->
                   <<"Status provided \"", r.responseStatus, "\" is not a valid status.">>
              [] x.exc = "DataIsNotDictException" ->
                   <<"Malformed Data Block in Response, Exception; ">> \o x.text
              [] x.exc = "ResponseTooLongException" -> x.text
              [] OTHER -> <<"Malformed request, Exception: ">> \o x.text
    IN  ResponseObject(NoData, r.physicalResourceId, message, FAILED)

-----------------------------------------------------------------------------
(* The chained invocation: lines 127-189 *)

\* Time in milliseconds kept free for sending the response
TIMEOUT_THRESHOLD == 2000

\* context.get_remaining_time_in_millis() at the time of the invoke
RemainingTimes == {1500, 2500, 30000}

\* lines 133-136, in milliseconds: (remaining - TIMEOUT_THRESHOLD) / 1000
\* seconds, and TIMEOUT_THRESHOLD / 2000 seconds when that is not positive
ReadTimeoutMs(remaining) ==
    IF remaining - TIMEOUT_THRESHOLD <= 0 THEN TIMEOUT_THRESHOLD \div 2
    ELSE remaining - TIMEOUT_THRESHOLD

\* json.dumps of a request object, as the pieces of its text: each key with
\* its punctuation, each value a piece of its own
RECURSIVE JsonOfKeys(_, _)
JsonOfKeys(e, keys) ==
    IF keys = {} THEN <<>>
    ELSE LET k == CHOOSE j \in keys : TRUE
             rest == keys \ {k}
         IN  (IF k \in PropKeys
              THEN <<"\"" \o k \o "\": {">> \o JsonOfKeys(e[k], DOMAIN e[k]) \o <<"}">>
              ELSE <<"\"" \o k \o "\": \"", e[k], "\"">>)
             \o (IF rest = {} THEN <<>> ELSE <<", ">> \o JsonOfKeys(e, rest))
EventPieces(e) == <<"{">> \o JsonOfKeys(e, DOMAIN e) \o <<"}">>
EventJson(e) == Joined(EventPieces(e))

\* lines 130-131: p_event
ChildEvent(e, ctx) == WithKey(e, "LambdaParentRequestId", aws_request_id(ctx))

InvokeErrors == {"ClientError", "ConnectionError", "Exception"}

NoEvent == [k \in {} |-> None]
NoExc == [exc |-> None, text |-> <<>>]
NoRet == [kind |-> "none", body |-> NoBody, payload |-> ""]
Returned(body) == [kind |-> "body", body |-> body, payload |-> ""]

Terminal == {"done", "raised"}

\* json.dumps of the items of a dict, as pieces
RECURSIVE ItemsPieces(_)
ItemsPieces(items) ==
    IF items = <<>> THEN <<>>
    ELSE LET p == Head(items)
             rest == Tail(items)
         IN  (IF p[2].isDict
              THEN <<"\"" \o p[1] \o "\": {">> \o ItemsPieces(p[2].sub) \o <<"}">>
              ELSE <<"\"" \o p[1] \o "\": \"", p[2].leaf, "\"">>)
             \o (IF rest = <<>> THEN <<>> ELSE <<", ">> \o ItemsPieces(rest))

\* json.dumps of a responseBody, as pieces: the text the Lambda service
\* makes of the dict a handler returns
BodyPieces(b) ==
    <<"{\"Status\": \"", b.Status, "\"">>
    \o (IF b.Reason # NoReason THEN <<", \"Reason\": \"">> \o b.Reason \o <<"\"">> ELSE <<>>)
    \o <<", \"PhysicalResourceId\": \"", b.PhysicalResourceId,
         "\", \"StackId\": \"", b.StackId,
         "\", \"RequestId\": \"", b.RequestId,
         "\", \"LogicalResourceId\": \"", b.LogicalResourceId, "\"">>
    \o (IF b.Data.kind # "NoneType"
        THEN <<", \"Data\": {">> \o ItemsPieces(b.Data.items) \o <<"}">> ELSE <<>>)
    \o (IF b.NoEcho # None THEN <<", \"NoEcho\": \"true\"">> ELSE <<>>)
    \o <<"}">>

\* b_lambda.invoke has not been called
NoResponse == [kind |-> "none", FunctionError |-> FALSE, Payload |-> ""]

\* lines 142-148: the response of b_lambda.invoke once the child has ended;
\* it has FunctionError when the child's handler raised, and its Payload is
\* the text of what the child's handler returned
InvokeResponse(childPc, childExc, childRet) ==
    IF childPc = "raised"
    THEN [kind |-> "response", FunctionError |-> TRUE,
          Payload |-> "{\"errorType\": \"" \o childExc \o "\"}"]
    ELSE [kind |-> "response", FunctionError |-> FALSE,
          Payload |-> Joined(BodyPieces(childRet.body))]

\* The record of one cfnresponse call
SendRecord(i, line, r, x) ==
    [by |-> i, line |-> line, ro |-> r, exc |-> x.exc, body |-> x.body, put |-> x.put]

\* No library function is being called directly
NoCall == [fn |-> None, args |-> <<>>, out |-> <<>>]

\* No redaction config has been constructed
NoConfig ==
    [class |-> None, redactMode |-> None, redactResponseURL |-> FALSE,
     redactProperties |-> <<>>]

-----------------------------------------------------------------------------
(* rdecorator.resource_decorator_handler: lines 382-417 *)

\* The argument expectedProperties: None, a list of property names, or a
\* value that is neither a list nor a tuple
NoProperties == [kind |-> "NoneType", items |-> <<>>]
PropertyList(items) == [kind |-> "list", items |-> items]
NotAList == [kind |-> "str", items |-> <<>>]

\* The handler is not wrapped by rdecorator: the arguments with which
\* rdecorator does nothing but call the function
NoResourceDecorator ==
    /\ decoratorHandleDelete = FALSE
    /\ expectedProperties = NoProperties
    /\ genUUID = FALSE

\* GenerateId that does not look at genUUID
GenerateIdAlways(e, gen) ==
    IF "PhysicalResourceId" \notin DOMAIN e
    THEN WithKey(e, "PhysicalResourceId", Uuid) ELSE e

\* lines 392-394: the event after the generated PhysicalResourceId is put
\* into it
GenerateId(e, gen) ==
    IF gen /\ "PhysicalResourceId" \notin DOMAIN e
    THEN WithKey(e, "PhysicalResourceId", Uuid) ELSE e

\* HandlesDelete that ignores decoratorHandleDelete
HandlesNoRequest(e, handleDelete) == FALSE

\* line 397: the decorator answers the request itself
HandlesDelete(e, handleDelete) == handleDelete /\ e["RequestType"] = DELETE

\* A KeyError for the key k of a dict
KeyError(k) == Raise("'" \o k \o "'")

\* lines 403-410: what the loop over expectedProperties returns or raises
\* from its item number n on; NotRun when no property is missing
RECURSIVE CheckProperties(_, _, _)
CheckProperties(e, items, n) ==
    IF n > Len(items) THEN NotRun
    ELSE IF "ResourceProperties" \notin DOMAIN e THEN KeyError("ResourceProperties")
    ELSE IF items[n] \notin DOMAIN e["ResourceProperties"]
    THEN IF "PhysicalResourceId" \notin DOMAIN e THEN KeyError("PhysicalResourceId")
         ELSE ReturnObject(ResponseObject(NoData, e["PhysicalResourceId"],
                  <<"Property ", items[n], " missing, sending failure signal">>, FAILED))
    ELSE CheckProperties(e, items, n + 1)

\* resource_decorator_handler, lines 382-417, around a function that does
\* o when it is called: the event after the call, whether the function was
\* called, and what the wrapper returned or raised
rdecorator(e, handleDelete, expected, gen, o) ==
    IF ~is_valid_event(e)
    THEN [event |-> e, called |-> FALSE,
          outcome |-> [Raise("The event object passed is not a valid Request Object")
                       EXCEPT !.type = "NotValidRequestObjectException"]]
    ELSE LET e1 == GenerateId(e, gen)
             check == IF expected.kind = "list"
                      THEN CheckProperties(e1, expected.items, 1) ELSE NotRun
         IN  IF HandlesDelete(e1, handleDelete)
             THEN [event |-> e1, called |-> FALSE,
                   outcome |-> ReturnObject(
                       ResponseObject(NoData, e1["PhysicalResourceId"], NoReason, SUCCESS))]
             ELSE IF check # NotRun
             THEN [event |-> e1, called |-> FALSE, outcome |-> check]
             ELSE [event |-> e1, called |-> TRUE, outcome |-> o]

-----------------------------------------------------------------------------
(* Behaviour *)

Init ==
    /\ enforceUseOfClass \in BOOLEAN
    /\ hideResourceDeleteFailure \in BOOLEAN
    /\ timeoutFunction \in BOOLEAN
    /\ NoResourceDecorator
    /\ \E e \in Events : event = [i \in Invocations |-> IF i = Parent THEN e ELSE NoEvent]
    /\ \E c \in {None, Parent} : context = [i \in Invocations |-> IF i = Parent THEN c ELSE None]
    /\ pc = [i \in Invocations |-> IF i = Parent THEN "start" ELSE "idle"]
    /\ raw = [i \in Invocations |-> NotRun]
    /\ normalized = [i \in Invocations |-> NoObject]
    /\ result = [i \in Invocations |-> NoObject]
    /\ pending = [i \in Invocations |-> NoExc]
    /\ exc = [i \in Invocations |-> None]
    /\ ret = [i \in Invocations |-> NoRet]
    /\ funcCalls = [i \in Invocations |-> 0]
    /\ readTimeout = 0
    /\ invokes = 0
    /\ response = NoResponse
    /\ sends = <<>>
    /\ call = NoCall
    /\ rconfig = NoConfig

\* ValidateNext without the validity check of lines 109-114
ValidateNextNoCheck(e, ctx, timeout) ==
    IF "LambdaParentRequestId" \in DOMAIN e THEN "exec"
    ELSE IF ctx = None /\ timeout THEN "exec"
    ELSE IF timeout THEN "invoke"
    ELSE "exec"

\* ValidateNext without the test of line 117 for the tag of a child
ValidateNextIgnoresTag(e, ctx, timeout) ==
    IF ~is_valid_event(e) THEN "raised"
    ELSE IF ctx = None /\ timeout THEN "exec"
    ELSE IF timeout THEN "invoke"
    ELSE "exec"

\* lines 108-127: validation, and the choice between chaining and running
\* user logic here
ValidateNext(e, ctx, timeout) ==
    IF ~is_valid_event(e) THEN "raised"
    ELSE IF "LambdaParentRequestId" \in DOMAIN e THEN "exec"
    ELSE IF ctx = None /\ timeout THEN "exec"
    ELSE IF timeout THEN "invoke"
    ELSE "exec"

Validate(i) ==
    /\ pc[i] = "start"
    /\ pc' = [pc EXCEPT ![i] = ValidateNext(event[i], context[i], timeoutFunction)]
    /\ exc' = [exc EXCEPT ![i] = IF pc'[i] = "raised"
                                 THEN "NotValidRequestObjectException" ELSE None]
    /\ UNCHANGED <<config, lib, response, event, context, raw, normalized, result, pending, ret,
                   funcCalls, readTimeout, invokes, sends>>

\* lines 128-145: b_lambda.invoke is accepted and the child starts
InvokeChild(i) ==
    /\ pc[i] = "invoke"
    /\ \E remaining \in RemainingTimes : readTimeout' = ReadTimeoutMs(remaining)
    /\ pc' = [pc EXCEPT ![i] = "waiting", ![Child] = "start"]
    /\ event' = [event EXCEPT ![Child] = ChildEvent(event[i], context[i])]
    /\ context' = [context EXCEPT ![Child] = Child]
    /\ invokes' = invokes + 1
    /\ response' = [NoResponse EXCEPT !.kind = "pending"]
    /\ UNCHANGED <<config, lib, raw, normalized, result, pending, exc, ret, funcCalls, sends>>

\* lines 159-177 and 185-189: b_lambda.invoke raises before a child starts
InvokeFailedResult(err) ==
    IF err = "ConnectionError"
    THEN ResponseObject(NoData, None,
             <<"Unable to call Lambda to do chained invoke, returning failure.">>, FAILED)
    ELSE ResponseObject(NoData, None,
             <<"Got an ", "<class 'Exception'>",
               " I did not understand while trying to invoke child function: ",
               "invoke failed">>, FAILED)

\* InvokeFailsNext that answers FAILED for every exception of the invoke
InvokeFailsNextNoLocalRun(err) == "chainsend"

\* InvokeFailsNext that goes on to run user logic after every exception of
\* the invoke
InvokeFailsNextRunsLocally(err) == "exec"

\* lines 159-189: after a ClientError the handler goes on to run user logic;
\* the other except clauses send a FAILED envelope
InvokeFailsNext(err) == IF err = "ClientError" THEN "exec" ELSE "chainsend"

InvokeFails(i) ==
    /\ pc[i] = "invoke"
    /\ \E remaining \in RemainingTimes : readTimeout' = ReadTimeoutMs(remaining)
    /\ \E err \in InvokeErrors :
          /\ response' = [NoResponse EXCEPT !.kind = err]
          /\ pc' = [pc EXCEPT ![i] = InvokeFailsNext(err)]
          /\ result' = [result EXCEPT ![i] =
                IF pc'[i] = "chainsend" THEN InvokeFailedResult(err) ELSE @]
    /\ UNCHANGED <<config, lib, event, context, raw, normalized, pending, exc, ret,
                   funcCalls, invokes, sends>>

\* lines 178-184: the read timeout passes while the child is still running
ReadTimeout(i) ==
    /\ pc[i] = "waiting"
    /\ pc[Child] \notin Terminal
    /\ pc' = [pc EXCEPT ![i] = "chainsend"]
    /\ result' = [result EXCEPT ![i] =
          ResponseObject(NoData, None,
              <<"Lambda function timed out, returning failure.">>, FAILED)]
    /\ response' = [NoResponse EXCEPT !.kind = "ReadTimeoutError"]
    /\ UNCHANGED <<config, lib, event, context, raw, normalized, pending, exc, ret,
                   funcCalls, readTimeout, invokes, sends>>

\* line 149: message, logged at line 150 and the reason of the envelope of
\* line 151; payload is the request sent to the child
ChildErrorMessage(p_event) == <<"Invocation got an error: ">> \o EventPieces(p_event)

\* ChildAnswerNext that goes on to run user logic in the parent
ChildAnswerNextRunsLocally(childPc) == "exec"

\* lines 146-157: the invoke returns; the response has FunctionError when
\* the child's handler raised
ChildAnswerNext(childPc) == IF childPc = "raised" THEN "chaintry" ELSE "done"

ChildAnswer(i) ==
    /\ pc[i] = "waiting"
    /\ pc[Child] \in Terminal
    /\ pc' = [pc EXCEPT ![i] = ChildAnswerNext(pc[Child])]
    /\ response' = InvokeResponse(pc[Child], exc[Child], ret[Child])
    /\ IF pc'[i] = "chaintry"
       THEN /\ result' = [result EXCEPT ![i] =
                  ResponseObject(NoData, None, ChildErrorMessage(event[Child]), FAILED)]
            /\ UNCHANGED ret
       ELSE /\ ret' = [ret EXCEPT ![i] =
                  [kind |-> "payload", body |-> NoBody, payload |-> EventJson(event[Child])]]
            /\ UNCHANGED result
    /\ UNCHANGED <<config, lib, event, context, raw, normalized, pending, exc,
                   funcCalls, readTimeout, invokes, sends>>

\* line 185: which exceptions of the try block around the invoke the
\* generic clause catches (every Exception that is no botocore exception)
ChainCatches(x) == x.exc # None

\* lines 185-189: the envelope the generic clause builds
ChainRewrite(x) ==
    ResponseObject(NoData, None,
        <<"Got an ", "<class '" \o x.exc \o "'>",
          " I did not understand while trying to invoke child function: ">> \o x.text,
        FAILED)

\* line 151: the send of the child-error envelope, inside the try block
ChainTry(i) ==
    /\ pc[i] = "chaintry"
    /\ \E putOk \in BOOLEAN :
          LET x == Send(result[i], event[i], context[i], putOk)
          IN  /\ sends' = Append(sends, SendRecord(i, "chaintry", result[i], x))
              /\ IF ChainCatches(x)
                 THEN /\ pc' = [pc EXCEPT ![i] = "chainsend"]
                      /\ result' = [result EXCEPT ![i] = ChainRewrite(x)]
                      /\ UNCHANGED ret
                 ELSE /\ pc' = [pc EXCEPT ![i] = "done"]
                      /\ ret' = [ret EXCEPT ![i] = Returned(x.body)]
                      /\ UNCHANGED result
    /\ UNCHANGED <<config, lib, response, event, context, raw, normalized, pending, exc,
                   funcCalls, readTimeout, invokes>>

\* Where a send that is not inside a try block leaves the handler
FinalNext(x) == IF x.exc = None THEN "done" ELSE "raised"

\* lines 174-177, 181-184 and 189: a send inside an except clause of the
\* chaining stage; what it raises escapes
ChainSend(i) ==
    /\ pc[i] = "chainsend"
    /\ \E putOk \in BOOLEAN :
          LET x == Send(result[i], event[i], context[i], putOk)
          IN  /\ sends' = Append(sends, SendRecord(i, "chainsend", result[i], x))
              /\ pc' = [pc EXCEPT ![i] = FinalNext(x)]
              /\ exc' = [exc EXCEPT ![i] = IF pc'[i] = "raised" THEN x.exc ELSE None]
              /\ ret' = [ret EXCEPT ![i] = IF pc'[i] = "done" THEN Returned(x.body) ELSE NoRet]
    /\ UNCHANGED <<config, lib, response, event, context, raw, normalized, result, pending,
                   funcCalls, readTimeout, invokes>>

\* lines 204-216: result after the call of func
CallResult(o, ctx) ==
    IF o.kind = "raise" THEN ExceptionResult(o, ctx)
    ELSE IF o.type = "ResponseObject" THEN o.ro
    ELSE NoObject

\* lines 204-272: user logic runs, its result is normalized and the delete
\* guard applied
Execute(i) ==
    /\ pc[i] = "exec"
    /\ \E o \in Outcomes :
          /\ raw' = [raw EXCEPT ![i] = o]
          /\ normalized' = [normalized EXCEPT ![i] =
                Normalize(CallResult(o, context[i]), o, context[i], enforceUseOfClass)]
          /\ result' = [result EXCEPT ![i] =
                DeleteGuard(normalized'[i], event[i], hideResourceDeleteFailure)]
    /\ funcCalls' = [funcCalls EXCEPT ![i] = @ + 1]
    /\ pc' = [pc EXCEPT ![i] = "send"]
    /\ UNCHANGED <<config, lib, response, event, context, pending, exc, ret, readTimeout, invokes, sends>>

\* SendNext without the except clause of ResponseTooLongException, which
\* then escapes
SendNextNoTooLong(x) ==
    IF x.exc = None THEN "done"
    ELSE IF x.exc \in {"ResponseTooLongException", "FailedToSendResponseException"}
    THEN "raised"
    ELSE "resend"

\* SendNext that sends again after a PUT that failed
SendNextRetriesPut(x) == IF x.exc = None THEN "done" ELSE "resend"

\* lines 274-325: which clause handles the outcome x of the first send
SendNext(x) ==
    IF x.exc = None THEN "done"
    ELSE IF x.exc \in {"NoPhysicalResourceIdException", "InvalidResponseStatusException",
                       "DataIsNotDictException", "ResponseTooLongException"}
    THEN "resend"
    ELSE IF x.exc = "FailedToSendResponseException" THEN "raised"
    ELSE "resend"

\* lines 274-323: the first send and the except clause that handles it
SendFirst(i) ==
    /\ pc[i] = "send"
    /\ \E putOk \in BOOLEAN :
          LET x == Send(result[i], event[i], context[i], putOk)
          IN  /\ sends' = Append(sends, SendRecord(i, "send", result[i], x))
              /\ pc' = [pc EXCEPT ![i] = SendNext(x)]
              /\ exc' = [exc EXCEPT ![i] = IF pc'[i] = "raised" THEN x.exc ELSE None]
              /\ ret' = [ret EXCEPT ![i] = IF pc'[i] = "done" THEN Returned(x.body) ELSE NoRet]
              /\ IF pc'[i] = "resend"
                 THEN /\ pending' = [pending EXCEPT ![i] = [exc |-> x.exc, text |-> x.text]]
                      /\ result' = [result EXCEPT ![i] = Rewrite(result[i], x)]
                 ELSE UNCHANGED <<pending, result>>
    /\ UNCHANGED <<config, lib, response, event, context, raw, normalized, funcCalls, readTimeout, invokes>>

\* lines 284, 293, 302, 311 and 324: the send inside the except clause; what
\* it raises escapes
Resend(i) ==
    /\ pc[i] = "resend"
    /\ \E putOk \in BOOLEAN :
          LET x == Send(result[i], event[i], context[i], putOk)
          IN  /\ sends' = Append(sends, SendRecord(i, "resend", result[i], x))
              /\ pc' = [pc EXCEPT ![i] = FinalNext(x)]
              /\ exc' = [exc EXCEPT ![i] = IF pc'[i] = "raised" THEN x.exc ELSE None]
              /\ ret' = [ret EXCEPT ![i] = IF pc'[i] = "done" THEN Returned(x.body) ELSE NoRet]
    /\ UNCHANGED <<config, lib, response, event, context, raw, normalized, result, pending,
                   funcCalls, readTimeout, invokes>>

Next ==
    \E i \in Invocations :
        \/ Validate(i)
        \/ InvokeChild(i)
        \/ InvokeFails(i)
        \/ ReadTimeout(i)
        \/ ChildAnswer(i)
        \/ ChainTry(i)
        \/ ChainSend(i)
        \/ Execute(i)
        \/ SendFirst(i)
        \/ Resend(i)

Spec == Init /\ [][Next]_vars

-----------------------------------------------------------------------------
(* sdecorator: the handler wrapper of decorator around the wrapper of       *)
(* rdecorator around the user function, lines 475-487                       *)

PropertiesBoth == ("key1" :> "1") @@ ("key2" :> "2")
PropertiesOne == ("key1" :> "1")
PropertiesOther == ("other" :> "x")

\* The requests a standalone handler is started with: each request type,
\* a Create with and without PhysicalResourceId, with ResourceProperties
\* that have both, one or none of the expected properties or without
\* ResourceProperties, and a request that is not valid
StandaloneEvents ==
    LET bare == {BaseEvent(CREATE, GoodUrl)}
                \cup {WithKey(BaseEvent(rt, GoodUrl), "PhysicalResourceId", "phys-1") :
                         rt \in {CREATE, UPDATE, DELETE}}
    IN  bare
        \cup {WithKey(e, "ResourceProperties", props) :
                 e \in bare, props \in {PropertiesBoth, PropertiesOne, PropertiesOther}}
        \cup {BaseEvent(DELETE, GoodUrl)}

ExpectedProperties ==
    {NoProperties, NotAList, PropertyList(<<>>), PropertyList(<<"key1", "key2">>)}

\* What the user function of a standalone handler does
StandaloneOutcomes ==
    {Raise("boom"), ReturnDict(SmallDict),
     ReturnObject(ResponseObject(NoData, "user-id", <<"user reason">>, FAILED))}

StandaloneInit ==
    /\ enforceUseOfClass \in BOOLEAN
    /\ hideResourceDeleteFailure \in BOOLEAN
    /\ timeoutFunction \in BOOLEAN
    /\ decoratorHandleDelete \in BOOLEAN
    /\ expectedProperties \in ExpectedProperties
    /\ genUUID \in BOOLEAN
    /\ \E e \in StandaloneEvents :
          event = [i \in Invocations |-> IF i = Parent THEN e ELSE NoEvent]
    /\ \E c \in {None, Parent} : context = [i \in Invocations |-> IF i = Parent THEN c ELSE None]
    /\ pc = [i \in Invocations |-> IF i = Parent THEN "start" ELSE "idle"]
    /\ raw = [i \in Invocations |-> NotRun]
    /\ normalized = [i \in Invocations |-> NoObject]
    /\ result = [i \in Invocations |-> NoObject]
    /\ pending = [i \in Invocations |-> NoExc]
    /\ exc = [i \in Invocations |-> None]
    /\ ret = [i \in Invocations |-> NoRet]
    /\ funcCalls = [i \in Invocations |-> 0]
    /\ readTimeout = 0
    /\ invokes = 0
    /\ response = NoResponse
    /\ sends = <<>>
    /\ call = NoCall
    /\ rconfig = NoConfig

\* lines 204-272 with func the wrapper of rdecorator (line 481): the wrapper
\* runs, and calls the user function or not; what it returns or raises is
\* normalized and the delete guard applied.  raw is what the wrapper did.
ExecuteResource(i) ==
    /\ pc[i] = "exec"
    /\ \E o \in StandaloneOutcomes :
          LET x == rdecorator(event[i], decoratorHandleDelete, expectedProperties, genUUID, o)
          IN  /\ event' = [event EXCEPT ![i] = x.event]
              /\ raw' = [raw EXCEPT ![i] = x.outcome]
              /\ funcCalls' = [funcCalls EXCEPT ![i] = IF x.called THEN @ + 1 ELSE @]
              /\ normalized' = [normalized EXCEPT ![i] =
                    Normalize(CallResult(x.outcome, context[i]), x.outcome, context[i],
                              enforceUseOfClass)]
              /\ result' = [result EXCEPT ![i] =
                    DeleteGuard(normalized'[i], x.event, hideResourceDeleteFailure)]
    /\ pc' = [pc EXCEPT ![i] = "send"]
    /\ UNCHANGED <<config, lib, response, context, pending, exc, ret, readTimeout, invokes,
                   sends>>

StandaloneNext ==
    \E i \in Invocations :
        \/ Validate(i)
        \/ InvokeChild(i)
        \/ InvokeFails(i)
        \/ ReadTimeout(i)
        \/ ChildAnswer(i)
        \/ ChainTry(i)
        \/ ChainSend(i)
        \/ ExecuteResource(i)
        \/ SendFirst(i)
        \/ Resend(i)

StandaloneSpec == StandaloneInit /\ [][StandaloneNext]_vars

-----------------------------------------------------------------------------
(* Direct calls of the functions of accustom/response.py *)

\* The wrapped handler is not running
HandlerIdle ==
    /\ enforceUseOfClass = FALSE
    /\ hideResourceDeleteFailure = FALSE
    /\ timeoutFunction = FALSE
    /\ NoResourceDecorator
    /\ event = [i \in Invocations |-> NoEvent]
    /\ context = [i \in Invocations |-> None]
    /\ pc = [i \in Invocations |-> "idle"]
    /\ raw = [i \in Invocations |-> NotRun]
    /\ normalized = [i \in Invocations |-> NoObject]
    /\ result = [i \in Invocations |-> NoObject]
    /\ pending = [i \in Invocations |-> NoExc]
    /\ exc = [i \in Invocations |-> None]
    /\ ret = [i \in Invocations |-> NoRet]
    /\ funcCalls = [i \in Invocations |-> 0]
    /\ readTimeout = 0
    /\ invokes = 0
    /\ response = NoResponse
    /\ sends = <<>>

\* c occurs in the string s
HasChar(s, c) == \E n \in 1..Len(s) : SubSeq(s, n, n) = c

\* line 69: whether urlparse returns; it raises ValueError("Invalid IPv6
\* URL") for a network location with one square bracket and not the other
UrlParses(url) == HasChar(url, "[") <=> HasChar(url, "]")

MalformedUrl == "https://[cb.example/r1"

\* Outcome of a call is_valid_event(e), lines 52-80: the value returned, or
\* the exception urlparse raised; the function assigns nothing to the
\* request, which is e after the call
is_valid_event_call(e) ==
    IF (RequiredKeys \subseteq DOMAIN e)
       /\ e["RequestType"] \in {CREATE, DELETE, UPDATE}
       /\ ~UrlParses(e["ResponseURL"])
    THEN [exc |-> "ValueError", value |-> FALSE, after |-> e]
    ELSE [exc |-> None, value |-> is_valid_event(e), after |-> e]

\* The requests is_valid_event is called with
ValidatorEvents ==
    Events
    \cup {BaseEvent(rt, MalformedUrl) : rt \in RequestTypes}
    \cup {WithKey(BaseEvent(rt, GoodUrl), "PhysicalResourceId", None) : rt \in RequestTypes}

CallIsValidEvent ==
    /\ call = NoCall
    /\ \E e \in ValidatorEvents :
          call' = [fn |-> "is_valid_event", args |-> [event |-> e],
                   out |-> is_valid_event_call(e)]
    /\ UNCHANGED <<handler, rconfig>>

\* The greatest number of items of a dict collapse_data is called with
MaxItems == 2

\* Items a dict handed to collapse_data is made of: plain entries, nested
\* dicts, and dotted keys that name an entry of a nested dict
CollapseItems ==
    {<<"A", Leaf("plain")>>,
     <<"A", Sub(<< <<"B", Leaf("nested")>> >>)>>,
     <<"A", Sub(<< <<"B", Sub(<< <<"C", Leaf("deep")>> >>)>>, <<"D", Leaf("d")>> >>)>>,
     <<"A.B", Leaf("explicit")>>,
     <<"A.B", Sub(<< <<"C", Leaf("inner")>> >>)>>,
     <<"A.B.C", Leaf("explicit")>>,
     <<"Name", Leaf("Bob")>>}

\* The keys of a sequence of items are distinct
DistinctKeys(items) ==
    \A m, n \in DOMAIN items : m # n => items[m][1] # items[n][1]

CollapseInputs ==
    {Dict(items) : items \in
        {q \in UNION {[1..n -> CollapseItems] : n \in 0..MaxItems} : DistinctKeys(q)}}

CallCollapseData ==
    /\ call = NoCall
    /\ \E d \in CollapseInputs \cup {NestedDict} :
          call' = [fn |-> "collapse_data", args |-> [response_data |-> d],
                   out |-> collapse_data(d)]
    /\ UNCHANGED <<handler, rconfig>>

\* A dict whose one value has n characters
PadDict(n) == Dict(<< <<"blob", Leaf(Filler(n))>> >>)

RefEvent == WithKey(BaseEvent(CREATE, GoodUrl), "PhysicalResourceId", "phys-1")

\* len(json.dumps(responseBody)) of the call
\* cfnresponse(RefEvent, SUCCESS, responseData={'blob': ''})
RefLen == JsonLen(CfnBody(RefEvent, SUCCESS, NoReason, PadDict(0), None, None, FALSE))

\* Lengths of the serialized envelope on both sides of the limit, with and
\* without the header of the str object
PadTargets ==
    {CUSTOM_RESOURCE_SIZE_LIMIT - StrObjectOverhead - 1,
     CUSTOM_RESOURCE_SIZE_LIMIT - StrObjectOverhead,
     CUSTOM_RESOURCE_SIZE_LIMIT - 1,
     CUSTOM_RESOURCE_SIZE_LIMIT,
     CUSTOM_RESOURCE_SIZE_LIMIT + 1}

PadDicts == {PadDict(t - RefLen) : t \in PadTargets}

\* The arguments cfnresponse is called with
CfnEvents ==
    {BaseEvent(CREATE, GoodUrl), RefEvent,
     WithKey(BaseEvent(CREATE, GoodUrl), "PhysicalResourceId", None),
     WithKey(BaseEvent(DELETE, GoodUrl), "PhysicalResourceId", "phys-1"),
     WithKey(BaseEvent(UPDATE, GoodUrl), "PhysicalResourceId", ""),
     BaseEvent(DELETE, GoodUrl),
     BaseEvent(CREATE, "ftp://cb.example/r1")}
CfnStatuses == {SUCCESS, FAILED, "COMPLETE"}
CfnReasons == {NoReason, <<"user reason">>}
CfnData ==
    {NoData, SmallDict, ExcDict, NestedDict, NotADict, UnserializableDict} \cup PadDicts
CfnIds == {None, "", "arg-id", HugeId}
CfnContexts == {None, Parent}

\* What requests.put(responseUrl, ...) of line 222 does: it raises, or
\* returns a response with a status code
PutStatusCodes == {200, 201, 204, 403, 500}
PutResults ==
    {[raised |-> TRUE, status_code |-> 0]}
        \cup {[raised |-> FALSE, status_code |-> c] : c \in PutStatusCodes}

\* PutOk accepting every status code from 200 to 299
PutOkAny2xx(put) == ~put.raised /\ put.status_code \div 100 = 2

\* lines 221-243: the PUT did not raise and line 227 lets its status code
\* pass
PutOk(put) == ~put.raised /\ ~(put.status_code # 200)

CallCfnresponse ==
    /\ call = NoCall
    /\ \E e \in CfnEvents, status \in CfnStatuses, reason \in CfnReasons,
          data \in CfnData, pid \in CfnIds, ctx \in CfnContexts,
          squash \in BOOLEAN, put \in PutResults :
          call' = [fn |-> "cfnresponse",
                   args |-> [event |-> e, responseStatus |-> status,
                             responseReason |-> reason, responseData |-> data,
                             physicalResourceId |-> pid, context |-> ctx,
                             squashPrintResponse |-> squash, put |-> put],
                   out |-> cfnresponse(e, status, reason, data, pid, ctx, squash,
                                       PutOk(put))]
    /\ UNCHANGED <<handler, rconfig>>

\* The call returns to the caller (or raises), who may call again
ResponseReturn ==
    /\ call # NoCall
    /\ call' = NoCall
    /\ UNCHANGED <<handler, rconfig>>

ResponseInit ==
    /\ HandlerIdle
    /\ call = NoCall
    /\ rconfig = NoConfig

ResponseNext ==
    \/ CallIsValidEvent
    \/ CallCollapseData
    \/ CallCfnresponse
    \/ ResponseReturn

ResponseSpec == ResponseInit /\ [][ResponseNext]_vars

-----------------------------------------------------------------------------
(* Observations on the log of sends *)

SendsOf(i) == SelectSeq(sends, LAMBDA s : s.by = i)

\* The sends of the delivering stage (lines 274-324) of invocation i
DeliverySendsOf(i) == SelectSeq(sends, LAMBDA s : s.by = i /\ s.line \in {"send", "resend"})

\* The envelopes the callback URL received
Delivered == SelectSeq(sends, LAMBDA s : s.exc = None)

\* Every PUT that was issued was accepted
EndpointAccepts == \A k \in DOMAIN sends : sends[k].put => sends[k].exc = None

EndpointAcceptsFrom(i) ==
    \A k \in DOMAIN sends : (sends[k].by = i /\ sends[k].put) => sends[k].exc = None

Finished == pc[Parent] \in Terminal /\ pc[Child] \in Terminal \cup {"idle"}

ProtocolErrors ==
    {"NoPhysicalResourceIdException", "InvalidResponseStatusException",
     "DataIsNotDictException", "ResponseTooLongException"}

-----------------------------------------------------------------------------
(* Claims *)

\* C1: for a valid request and an endpoint that accepts every PUT, an
\* invocation of the wrapped handler ends with exactly one envelope
\* delivered to the callback URL.
C1_ExactlyOneEnvelope ==
    (is_valid_event(event[Parent]) /\ Finished /\ EndpointAccepts)
        => Len(Delivered) = 1

\* C2: the only exceptions that escape the wrapped handler are
\* NotValidRequestObjectException and FailedToSendResponseException.
C2_OnlyTwoErrorsEscape ==
    \A i \in Invocations :
        pc[i] = "raised"
            => exc[i] \in {"NotValidRequestObjectException", "FailedToSendResponseException"}

\* C3: across a parent invocation and its chained child, at most one
\* envelope is ever delivered to the callback URL.
C3_AtMostOneEnvelope == Len(Delivered) <= 1

C5_ExceptionEnvelopeDelivered ==
    \A i \in Invocations :
        (/\ raw[i].kind = "raise"
         /\ pc[i] \in Terminal
         /\ EndpointAcceptsFrom(i)
         /\ ~(hideResourceDeleteFailure /\ event[i]["RequestType"] = DELETE))
            => /\ exc[i] = None
               /\ \E k \in DOMAIN sends :
                     /\ sends[k].by = i
                     /\ sends[k].exc = None
                     /\ sends[k].body.Status = FAILED
                     /\ Contains(sends[k].body.Reason, FuncName)
                     /\ Contains(sends[k].body.Reason, raw[i].val)

\* C5, amended: when user logic raises, the exception does not escape; the
\* handler builds a FAILED envelope whose reason has the function's name
\* and the exception text, and sends it (or the delete guard's
\* replacement).  That envelope is the one delivered when its PUT is
\* accepted; when the exception text makes the serialized envelope reach
\* the size limit, no PUT is made for it and the envelope sent next is the
\* FAILED rewrite whose reason is the response-too-long message, without
\* the exception text.
C5_ExceptionBecomesFailedEnvelope ==
    \A i \in Invocations :
        raw[i].kind = "raise" =>
            LET n == normalized[i]
                S == DeliverySendsOf(i)
                hidden == hideResourceDeleteFailure /\ event[i]["RequestType"] = DELETE
            IN  /\ n.responseStatus = FAILED
                /\ Contains(n.reason, FuncName)
                /\ Contains(n.reason, raw[i].val)
                /\ exc[i] \in {None, "FailedToSendResponseException"}
                /\ pc[i] \in {"send", "resend", "done", "raised"}
                /\ pc[i] = "send" => Len(S) = 0
                /\ pc[i] # "send" => Len(S) >= 1
                /\ Len(S) >= 1 =>
                      /\ IF hidden THEN S[1].ro.responseStatus = SUCCESS ELSE S[1].ro = n
                      /\ S[1].exc \in {None, "FailedToSendResponseException",
                                        "ResponseTooLongException"}
                      /\ (~hidden /\ StrLen(raw[i].val) >= CUSTOM_RESOURCE_SIZE_LIMIT) =>
                            S[1].exc = "ResponseTooLongException" /\ ~S[1].put
                      /\ hidden => S[1].exc # "ResponseTooLongException"
                      /\ (S[1].exc = None /\ ~hidden) =>
                            /\ pc[i] = "done"
                            /\ S[1].body.Status = FAILED
                            /\ Contains(S[1].body.Reason, FuncName)
                            /\ Contains(S[1].body.Reason, raw[i].val)
                      /\ (S[1].exc = "ResponseTooLongException") <=> (pc[i] = "resend" \/ Len(S) = 2)
                /\ Len(S) = 2 =>
                      /\ S[2].ro.responseStatus = FAILED
                      /\ Contains(S[2].ro.reason, "n bytes long which exceeds ")
                      /\ ~Contains(S[2].ro.reason, raw[i].val)
                      /\ S[2].exc \in {None, "FailedToSendResponseException"}
                      /\ S[2].exc = None => S[2].body.Status = FAILED

C5_Witness ==
    /\ raw[Parent] = Raise("boom")
    /\ context[Parent] # None
    /\ pc[Parent] = "done"
    /\ Len(sends) = 1
    /\ sends[1].body.Status = FAILED
    /\ Contains(sends[1].body.Reason, "boom")

\* C6: with a context and enforceUseOfClass off, a returned value that is
\* no ResponseObject is normalized by its type: False gives FAILED, a dict
\* SUCCESS with the dict as data, a str s SUCCESS with data {'Return': s},
\* None and True SUCCESS without data, any other type FAILED with the
\* unsupported-type reason; a returned ResponseObject is kept as it is.
C6_Normalization ==
    \A i \in Invocations :
        (raw[i].kind = "return" /\ context[i] # None /\ ~enforceUseOfClass) =>
            LET o == raw[i]
                n == normalized[i]
            IN  /\ (o.type = "bool" /\ o.val = "False") =>
                      n.responseStatus = FAILED /\ n.data = NoData
                /\ o.type = "dict" =>
                      n.responseStatus = SUCCESS /\ n.data = o.data
                /\ o.type = "str" =>
                      n.responseStatus = SUCCESS /\ n.data = Dict(<< <<"Return", Leaf(o.val)>> >>)
                /\ (o.type = "NoneType" \/ (o.type = "bool" /\ o.val = "True")) =>
                      n.responseStatus = SUCCESS /\ n.data = NoData
                /\ o.type \notin {"bool", "dict", "str", "NoneType", "ResponseObject"} =>
                      /\ n.responseStatus = FAILED
                      /\ Contains(n.reason, " is of unsupported type ")
                /\ o.type = "ResponseObject" => n = o.ro

C6_Witness ==
    /\ context[Parent] # None
    /\ ~enforceUseOfClass
    /\ raw[Parent] = Return("str", "text")
    /\ pc[Parent] = "done"
    /\ Len(sends) = 1
    /\ sends[1].body.Status = SUCCESS
    /\ sends[1].body.Data = Dict(<< <<"Return", Leaf("text")>> >>)

\* C7: with enforceUseOfClass set, or without a context (whatever
\* enforceUseOfClass is), every returned value that is no ResponseObject
\* becomes a FAILED envelope without data; nothing is coerced to SUCCESS.
C7_EnforcedFailure ==
    \A i \in Invocations :
        (/\ raw[i].kind = "return"
         /\ raw[i].type # "ResponseObject"
         /\ (enforceUseOfClass \/ context[i] = None))
            => /\ normalized[i].responseStatus = FAILED
               /\ normalized[i].data = NoData
               /\ Contains(normalized[i].reason, "Response Object of type ")

C7_Witness ==
    /\ context[Parent] = None
    /\ ~enforceUseOfClass
    /\ raw[Parent] = ReturnDict(SmallDict)
    /\ normalized[Parent].responseStatus = FAILED
    /\ pc[Parent] = "send"

\* The delete guard applies to invocation i: a DELETE request, the policy
\* enabled and a FAILED normalized result
Guarded(i) ==
    /\ event[i]["RequestType"] = DELETE
    /\ hideResourceDeleteFailure
    /\ normalized[i].responseStatus = FAILED

Describes(reason, err, r) ==
    CASE err = "NoPhysicalResourceIdException" ->
           reason = <<"An unexpected error has occurred, No Physical Resource ID provided in response.">>
      [] err = "InvalidResponseStatusException" ->
           Contains(reason, r.responseStatus) /\ Contains(reason, "\" is not a valid status.")
      [] err = "DataIsNotDictException" ->
           Contains(reason, "Malformed Data Block in Response, Exception; ")
      [] err = "ResponseTooLongException" ->
           Contains(reason, "n bytes long which exceeds ")

\* C9: when the first send fails with a protocol error, the handler
\* replaces the envelope by a FAILED envelope with the same physical
\* resource id and a reason for that error and calls send once more; there
\* is no third send, and the outcome of the second send is the outcome of
\* the handler.
C9_OneRetry ==
    \A i \in Invocations :
        LET S == DeliverySendsOf(i)
        IN  /\ Len(S) <= 2
            /\ Len(SendsOf(i)) <= 2
            /\ (Len(S) >= 1 /\ S[1].exc \in ProtocolErrors) =>
                  /\ pc[i] \in {"resend", "done", "raised"}
                  /\ pc[i] = "resend" <=> Len(S) = 1
                  /\ result[i].responseStatus = FAILED
                  /\ result[i].data = NoData
                  /\ result[i].physicalResourceId = S[1].ro.physicalResourceId
                  /\ Describes(result[i].reason, S[1].exc, S[1].ro)
                  /\ Len(S) = 2 =>
                        /\ S[2].ro = result[i]
                        /\ IF S[2].exc = None
                           THEN pc[i] = "done" /\ ret[i] = Returned(S[2].body)
                           ELSE pc[i] = "raised" /\ exc[i] = S[2].exc

C9_Witness ==
    /\ raw[Parent] = ReturnDict(BigDict)
    /\ pc[Parent] = "done"
    /\ Len(sends) = 2
    /\ sends[1].exc = "ResponseTooLongException"
    /\ ~sends[1].put
    /\ sends[2].exc = None
    /\ sends[2].body.Status = FAILED

\* C10: when a PUT fails, FailedToSendResponseException leaves the handler
\* and the invocation sends nothing after it.
C10_DeliveryFailureEscapes ==
    \A k \in DOMAIN sends :
        sends[k].exc = "FailedToSendResponseException" =>
            /\ pc[sends[k].by] = "raised"
            /\ exc[sends[k].by] = "FailedToSendResponseException"
            /\ \A j \in DOMAIN sends : j > k => sends[j].by # sends[k].by

-----------------------------------------------------------------------------
(* Claims on accustom/response.py, on direct calls of its functions *)

\* The exceptions cfnresponse raises before it serializes the envelope
EarlierErrors ==
    {"NotValidRequestObjectException", "NoPhysicalResourceIdException",
     "InvalidResponseStatusException", "DataIsNotDictException", "AttributeError",
     "TypeError"}

\* The envelope a call of cfnresponse builds from its arguments
BodyOf(a) ==
    CfnBody(a.event, a.responseStatus, a.responseReason, a.responseData,
            a.physicalResourceId, a.context, a.squashPrintResponse)

\* C11: when the serialized envelope has 4096 characters or more,
\* cfnresponse raises ResponseTooLongException and issues no PUT; a body
\* that is PUT is the whole envelope, with all of the (collapsed) data, and
\* is shorter than the limit.
C11_TooLongBeforePut ==
    (call.fn = "cfnresponse" /\ call.out.exc \notin EarlierErrors) =>
        LET a == call.args
            x == call.out
        IN  /\ JsonLen(BodyOf(a)) >= CUSTOM_RESOURCE_SIZE_LIMIT =>
                  x.exc = "ResponseTooLongException" /\ ~x.put
            /\ x.exc = "ResponseTooLongException" => ~x.put /\ x.body = NoBody
            /\ x.put =>
                  /\ JsonLen(x.body) < CUSTOM_RESOURCE_SIZE_LIMIT
                  /\ x.body.Data = (IF a.responseData = NoData THEN NoData
                                    ELSE collapse_data(a.responseData))
                  /\ x.body.Status = a.responseStatus

C11_Witness ==
    /\ call.fn = "cfnresponse"
    /\ call.args.responseData \in PadDicts
    /\ JsonLen(BodyOf(call.args)) = CUSTOM_RESOURCE_SIZE_LIMIT
    /\ call.out.exc = "ResponseTooLongException"
    /\ ~call.out.put

\* The URL starts with the scheme http or https
HasHttpScheme(url) ==
    \/ Len(url) >= 5 /\ SubSeq(url, 1, 5) = "http:"
    \/ Len(url) >= 6 /\ SubSeq(url, 1, 6) = "https:"

\* The four conditions of a valid request
MeetsConditions(e) ==
    /\ RequiredKeys \subseteq DOMAIN e
    /\ e["RequestType"] \in {CREATE, UPDATE, DELETE}
    /\ HasHttpScheme(e["ResponseURL"])
    /\ e["RequestType"] \in {UPDATE, DELETE} => "PhysicalResourceId" \in DOMAIN e

\* C12: is_valid_event returns true exactly when the six required keys are
\* present, RequestType is Create, Update or Delete, ResponseURL has scheme
\* http or https and, for Update and Delete, PhysicalResourceId is present;
\* it returns false otherwise, and leaves the request as it was.
C12_ValidatorDecides ==
    call.fn = "is_valid_event" =>
        /\ call.out.exc = None
        /\ call.out.value = MeetsConditions(call.args.event)
        /\ call.out.after = call.args.event

\* An identifier that is a value: neither None nor the empty string
Resolves(id) == id \notin {None, ""}

\* The errors of cfnresponse that have nothing to do with the identifier
UnrelatedErrors ==
    {"NotValidRequestObjectException", "InvalidResponseStatusException",
     "DataIsNotDictException", "TypeError", "ResponseTooLongException"}

\* C13: the PhysicalResourceId of the envelope is the physicalResourceId
\* argument when one is given, otherwise the value in the request,
\* otherwise the log stream name of the context; when none of them is a
\* value and there is no context, cfnresponse raises
\* NoPhysicalResourceIdException and sends nothing; every envelope that is
\* sent has a PhysicalResourceId.
C13_IdResolution ==
    (call.fn = "cfnresponse" /\ call.out.exc \notin UnrelatedErrors) =>
        LET a == call.args
            x == call.out
            inRequest == IF "PhysicalResourceId" \in DOMAIN a.event
                         THEN a.event["PhysicalResourceId"] ELSE None
            wanted == IF Resolves(a.physicalResourceId) THEN a.physicalResourceId
                      ELSE IF Resolves(inRequest) THEN inRequest
                      ELSE IF a.context # None THEN log_stream_name(a.context)
                      ELSE None
        IN  /\ wanted = None => x.exc = "NoPhysicalResourceIdException" /\ ~x.put
            /\ wanted # None =>
                  /\ x.exc \in {None, "FailedToSendResponseException"}
                  /\ x.put
                  /\ x.body.PhysicalResourceId = wanted
            /\ x.put => Resolves(x.body.PhysicalResourceId)

\* The pointer to the log stream of a context
LogPointer(ctx) == <<"See the details in CloudWatch Log Stream: ", log_stream_name(ctx)>>

\* C14: when the status is FAILED and no reason was supplied, the Reason of
\* the envelope is made from the ExceptionThrown entry of the data when the
\* data has one and is the generic failure message otherwise, followed by
\* the pointer to the log stream when there is a context; when the status
\* is SUCCESS, no reason was supplied and there is a context, the Reason is
\* that pointer.
C14_DerivedReason ==
    (call.fn = "cfnresponse" /\ call.out.put /\ call.args.responseReason = NoReason) =>
        LET a == call.args
            b == call.out.body
            derived == IF a.responseData.kind = "dict" /\ HasKey(a.responseData, "ExceptionThrown")
                       THEN <<"There was an exception thrown in execution of '",
                              ValueOf(a.responseData, "ExceptionThrown"), "'">>
                       ELSE <<"Unknown failure occurred">>
        IN  /\ a.responseStatus = FAILED =>
                  Joined(b.Reason) =
                      Joined(IF a.context = None THEN derived
                             ELSE derived \o <<" -- ">> \o LogPointer(a.context))
            /\ (a.responseStatus = SUCCESS /\ a.context # None) =>
                  Joined(b.Reason) = Joined(LogPointer(a.context))

\* The entries a nested dict stands for: (dotted key, value) for each value
\* that is no dict, under the keys of the dicts around it
RECURSIVE Flattened(_, _)
Flattened(prefix, items) ==
    UNION {IF items[n][2].isDict
           THEN Flattened(prefix \o items[n][1] \o ".", items[n][2].sub)
           ELSE {<<prefix \o items[n][1], items[n][2].leaf>>} : n \in DOMAIN items}

\* The entries synthesized from the nested dicts of a dict
Synthesized(items) ==
    UNION {Flattened(items[n][1] \o ".", items[n][2].sub) :
              n \in {m \in DOMAIN items : items[m][2].isDict}}

\* C15: collapse_data returns a flat mapping; an entry that is no mapping
\* is kept as it is; and when the input has an explicit key equal to a
\* synthesized dotted key, the synthesized value is not in the result: the
\* key holds the explicit value, or is gone when the explicit value was a
\* mapping itself (then replaced by its own entries), in whatever order the
\* keys come.
C15_CollapseExplicitWins ==
    call.fn = "collapse_data" =>
        LET d == call.args.response_data.items
            r == call.out.items
        IN  /\ \A n \in DOMAIN r : ~r[n][2].isDict
            /\ DistinctKeys(r)
            /\ \A n \in DOMAIN d :
                  ~d[n][2].isDict => HasItem(r, d[n][1]) /\ ItemOf(r, d[n][1]) = d[n][2]
            /\ \A n \in DOMAIN d : \A p \in Synthesized(d) :
                  p[1] = d[n][1] =>
                      IF d[n][2].isDict THEN ~HasItem(r, p[1])
                      ELSE ItemOf(r, p[1]) = d[n][2]

-----------------------------------------------------------------------------
(* Redaction: accustom/redaction.py *)

_RESOURCEREGEX_DEFAULT == "^.*$"
REDACTED_STRING == "[REDACTED]"

BLOCKLIST == "block"
ALLOWLIST == "allow"
BLACKLIST == "black"
WHITELIST == "white"

\* Strings
StartsWith(s, p) == Len(s) >= Len(p) /\ SubSeq(s, 1, Len(p)) = p
EndsWith(s, p) == Len(s) >= Len(p) /\ SubSeq(s, Len(s) - Len(p) + 1, Len(s)) = p
Occurs(s, p) == \E n \in 1..(Len(s) - Len(p) + 1) : SubSeq(s, n, n + Len(p) - 1) = p

\* The regular expressions of the model are a literal text, or .* for any
\* text, between an optional ^ and an optional $
RegexCore(regex) ==
    LET from == IF StartsWith(regex, "^") THEN 2 ELSE 1
        to == IF EndsWith(regex, "$") THEN Len(regex) - 1 ELSE Len(regex)
    IN  SubSeq(regex, from, to)

\* line 151: re.compile(regex).match(s), a match at the start of s
Match(regex, s) ==
    IF RegexCore(regex) = ".*" THEN TRUE
    ELSE IF EndsWith(regex, "$") THEN s = RegexCore(regex)
    ELSE StartsWith(s, RegexCore(regex))

\* line 145: re.search(regex, s), a match anywhere in s
Search(regex, s) ==
    IF StartsWith(regex, "^") THEN Match(regex, s)
    ELSE IF RegexCore(regex) = ".*" THEN TRUE
    ELSE IF EndsWith(regex, "$") THEN EndsWith(s, RegexCore(regex))
    ELSE Occurs(s, RegexCore(regex))

\* RedactionRuleSet, lines 26-71: the object after its constructor and its
\* add_property / add_property_regex calls; properties is _properties
RedactionRuleSet(resourceRegex, properties) ==
    [class |-> "RedactionRuleSet", resourceRegex |-> resourceRegex,
     properties |-> properties]

\* line 71: the pattern add_property stores for a property name
add_property(propertyName) == "^" \o propertyName \o "$"

\* The rule sets and other values handed to the configs
RuleSets ==
    {RedactionRuleSet(_RESOURCEREGEX_DEFAULT, <<add_property("Password")>>),
     RedactionRuleSet(_RESOURCEREGEX_DEFAULT, <<"^Pass">>),
     RedactionRuleSet("^Custom::Thing$", <<add_property("Name"), add_property("Password")>>),
     RedactionRuleSet("^Custom::Thing$", <<>>),
     RedactionRuleSet("^Custom::Other$", <<add_property("Name")>>),
     RedactionRuleSet("Custom::", <<"Hint">>)}

NotARuleSet == [class |-> "str", resourceRegex |-> None, properties |-> <<>>]

RedactModes == {BLOCKLIST, ALLOWLIST, BLACKLIST, WHITELIST, "somestring"}

\* The greatest number of rule sets added to a RedactionConfig
MaxRuleSets == 2

\* lines 90-107: RedactionConfig.__init__; the exception raised, and the
\* object when none is
NewConfig(class, redactMode, redactResponseURL) ==
    LET mode == IF redactMode = BLACKLIST THEN BLOCKLIST
                ELSE IF redactMode = WHITELIST THEN ALLOWLIST
                ELSE redactMode
    IN  IF mode # BLOCKLIST /\ mode # ALLOWLIST
        THEN [exc |-> "TypeError", config |-> NoConfig]
        ELSE [exc |-> None,
              config |-> [class |-> class, redactMode |-> mode,
                          redactResponseURL |-> redactResponseURL,
                          redactProperties |-> <<>>]]

\* add_rule_set without the test of line 123: the entry of the pattern is
\* overwritten
AddRuleSetOverwrite(rc, ruleSet) ==
    IF ruleSet.class # "RedactionRuleSet"
    THEN [exc |-> "TypeError", config |-> rc]
    ELSE [exc |-> None,
          config |-> [rc EXCEPT !.redactProperties =
                         Append(SelectSeq(@, LAMBDA p : p[1] # ruleSet.resourceRegex),
                                <<ruleSet.resourceRegex, ruleSet.properties>>)]]

\* lines 121-127: RedactionConfig.add_rule_set
add_rule_set(rc, ruleSet) ==
    IF ruleSet.class # "RedactionRuleSet"
    THEN [exc |-> "TypeError", config |-> rc]
    ELSE IF HasItem(rc.redactProperties, ruleSet.resourceRegex)
    THEN [exc |-> "ConflictingValue", config |-> rc]
    ELSE [exc |-> None,
          config |-> [rc EXCEPT !.redactProperties =
                         Append(@, <<ruleSet.resourceRegex, ruleSet.properties>>)]]

\* StandaloneRedactionConfig.add_rule_set inherited from RedactionConfig
StandaloneAddRuleSetInherited(rc, ruleSet) == add_rule_set(rc, ruleSet)

\* line 212: StandaloneRedactionConfig.add_rule_set
StandaloneAddRuleSet(rc, ruleSet) ==
    [exc |-> "CannotApplyRuleToStandaloneRedactionConfig", config |-> rc]

\* lines 200-204: StandaloneRedactionConfig.__init__; line 201 sets an
\* attribute of ruleSet, which a str does not allow
NewStandalone(ruleSet, redactMode, redactResponseURL) ==
    LET base == NewConfig("StandaloneRedactionConfig", redactMode, redactResponseURL)
    IN  IF base.exc # None THEN base
        ELSE IF ruleSet.class # "RedactionRuleSet"
        THEN [exc |-> "AttributeError", config |-> NoConfig]
        ELSE add_rule_set(base.config,
                          [ruleSet EXCEPT !.resourceRegex = _RESOURCEREGEX_DEFAULT])

Properties1 == ("Password" :> "hunter2") @@ ("PasswordHint" :> "pet") @@ ("Name" :> "db1")
Properties2 == ("Password" :> "old") @@ ("Size" :> "10")

\* The requests _redact is called with: with and without each dict of
\* properties, and one that is not valid
RedactEvents ==
    LET base == {WithKey(BaseEvent(rt, GoodUrl), "PhysicalResourceId", "phys-1") :
                    rt \in {CREATE, UPDATE}}
        new == base \cup {WithKey(e, "ResourceProperties", Properties1) : e \in base}
        old == new \cup {WithKey(e, "OldResourceProperties", Properties2) : e \in new}
    IN  old \cup {WithKey(BaseEvent(CREATE, "ftp://cb.example/r1"),
                          "ResourceProperties", Properties1)}

\* The objects _redact works on are kept in a heap, a function from
\* addresses to dicts: the request at "event" and the copy at "ec", each
\* holding the address of a dict of properties under a key of PropKeys, so
\* that two names for one dict see each other's assignments.
Addr(owner, k) == owner \o "." \o k

Load(e) ==
    [a \in {"event"} \cup {Addr("event", k) : k \in PropKeys \cap DOMAIN e} |->
        IF a = "event"
        THEN [k \in DOMAIN e |-> IF k \in PropKeys THEN Addr("event", k) ELSE e[k]]
        ELSE e[CHOOSE k \in PropKeys : Addr("event", k) = a]]

\* The dict at address top, with its dicts of properties
Value(h, top) ==
    [k \in DOMAIN h[top] |-> IF k \in PropKeys THEN h[h[top][k]] ELSE h[top][k]]

\* ec = copy.copy(event): a new dict that holds the same dicts of properties
ShallowCopy(h) == ("ec" :> h["event"]) @@ h

\* line 140: ec = copy.deepcopy(event)
DeepCopy(h) ==
    LET e == h["event"]
    IN  [a \in {"ec"} \cup {Addr("ec", k) : k \in PropKeys \cap DOMAIN e} |->
            IF a = "ec"
            THEN [k \in DOMAIN e |-> IF k \in PropKeys THEN Addr("ec", k) ELSE e[k]]
            ELSE h[e[CHOOSE k \in PropKeys : Addr("ec", k) = a]]] @@ h

\* lines 142-143: ec[k] = {} for the dicts of properties ec has
RECURSIVE ClearProperties(_, _)
ClearProperties(h, keys) ==
    IF keys = {} THEN h
    ELSE LET k == CHOOSE j \in keys : TRUE
             h1 == IF k \in DOMAIN h["ec"]
                   THEN [((Addr("new", k) :> <<>>) @@ h) EXCEPT
                            !["ec"] = (k :> Addr("new", k)) @@ @]
                   ELSE h
         IN  ClearProperties(h1, keys \ {k})

\* BlockProperties that removes the properties that match from ec
RemoveProperties(h, item, k) ==
    IF k \in DOMAIN h["ec"]
    THEN [h EXCEPT ![h["ec"][k]] =
             [m_item \in {n \in DOMAIN @ : ~Match(item, n)} |-> @[m_item]]]
    ELSE h

\* lines 150-155: the properties of ec that match become REDACTED_STRING
BlockProperties(h, item, k) ==
    IF k \in DOMAIN h["ec"]
    THEN [h EXCEPT ![h["ec"][k]] =
             [m_item \in DOMAIN @ |->
                 IF Match(item, m_item) THEN REDACTED_STRING ELSE @[m_item]]]
    ELSE h

\* lines 157-162: the properties of event that match are copied to ec
AllowProperties(h, item, k) ==
    IF k \in DOMAIN h["ec"]
    THEN LET from == h[h["event"][k]]
         IN  [h EXCEPT ![h["ec"][k]] =
                 [m_item \in {n \in DOMAIN from : Match(item, n)} |-> from[m_item]] @@ @]
    ELSE h

\* lines 148-162: one property pattern
ApplyPattern(h, mode, item) ==
    IF mode = BLOCKLIST
    THEN BlockProperties(BlockProperties(h, item, "ResourceProperties"),
                         item, "OldResourceProperties")
    ELSE IF mode = ALLOWLIST
    THEN AllowProperties(AllowProperties(h, item, "ResourceProperties"),
                         item, "OldResourceProperties")
    ELSE h

\* line 147: the loop over the property patterns of a rule set
RECURSIVE ApplyPatterns(_, _, _)
ApplyPatterns(h, mode, propertyRegex) ==
    IF propertyRegex = <<>> THEN h
    ELSE ApplyPatterns(ApplyPattern(h, mode, Head(propertyRegex)), mode, Tail(propertyRegex))

\* ApplyRuleSets without the test of the resource type
RECURSIVE ApplyRuleSetsAnyResource(_, _, _)
ApplyRuleSetsAnyResource(h, mode, rules) ==
    IF rules = <<>> THEN h
    ELSE ApplyRuleSetsAnyResource(ApplyPatterns(h, mode, Head(rules)[2]), mode, Tail(rules))

\* ApplyRuleSets that stops at the first rule set that applies
RECURSIVE ApplyRuleSetsFirstMatch(_, _, _)
ApplyRuleSetsFirstMatch(h, mode, rules) ==
    IF rules = <<>> THEN h
    ELSE IF Search(Head(rules)[1], h["event"]["ResourceType"])
    THEN ApplyPatterns(h, mode, Head(rules)[2])
    ELSE ApplyRuleSetsFirstMatch(h, mode, Tail(rules))

\* lines 144-145: the loop over the rule sets; a rule set applies when its
\* resource regex is found in the resource type of the request
RECURSIVE ApplyRuleSets(_, _, _)
ApplyRuleSets(h, mode, rules) ==
    IF rules = <<>> THEN h
    ELSE LET resourceRegex == Head(rules)[1]
             propertyRegex == Head(rules)[2]
         IN  ApplyRuleSets(
                 IF Search(resourceRegex, h["event"]["ResourceType"])
                 THEN ApplyPatterns(h, mode, propertyRegex) ELSE h,
                 mode, Tail(rules))

\* DenyOthers that sets nothing
DenyOthersNothing(h, keys) == h

\* lines 164-169: the properties of event that ec has not become
\* REDACTED_STRING in ec
RECURSIVE DenyOthers(_, _)
DenyOthers(h, keys) ==
    IF keys = {} THEN h
    ELSE LET k == CHOOSE j \in keys : TRUE
             h1 == IF k \in DOMAIN h["ec"]
                   THEN LET from == h[h["event"][k]]
                        IN  [h EXCEPT ![h["ec"][k]] =
                                @ @@ [key \in DOMAIN from |-> REDACTED_STRING]]
                   ELSE h
         IN  DenyOthers(h1, keys \ {k})

\* DeleteUrl that leaves ResponseURL in ec
KeepUrl(h) == h

\* line 171: del ec['ResponseURL']
DeleteUrl(h) == [h EXCEPT !["ec"] = WithoutKey(@, "ResponseURL")]

\* RedactionConfig._redact, lines 129-172: the exception raised or the dict
\* returned, and the request as the call leaves it
_redact(rc, e) ==
    IF ~is_valid_event(e)
    THEN [exc |-> "NotValidRequestObjectException", value |-> NoEvent, after |-> e]
    ELSE LET h0 == DeepCopy(Load(e))
             h1 == IF rc.redactMode = ALLOWLIST THEN ClearProperties(h0, PropKeys) ELSE h0
             h2 == ApplyRuleSets(h1, rc.redactMode, rc.redactProperties)
             h3 == IF rc.redactMode = ALLOWLIST THEN DenyOthers(h2, PropKeys) ELSE h2
             h4 == IF rc.redactResponseURL THEN DeleteUrl(h3) ELSE h3
         IN  [exc |-> None, value |-> Value(h4, "ec"), after |-> Value(h4, "event")]

\* RedactionConfig(redactMode, redactResponseURL)
ConstructRedactionConfig ==
    /\ call = NoCall
    /\ rconfig = NoConfig
    /\ \E redactMode \in RedactModes, redactResponseURL \in BOOLEAN :
          LET x == NewConfig("RedactionConfig", redactMode, redactResponseURL)
          IN  /\ rconfig' = x.config
              /\ call' = [fn |-> "RedactionConfig",
                          args |-> [redactMode |-> redactMode,
                                    redactResponseURL |-> redactResponseURL],
                          out |-> [exc |-> x.exc]]
    /\ UNCHANGED handler

\* StandaloneRedactionConfig(ruleSet, redactMode, redactResponseURL)
ConstructStandalone ==
    /\ call = NoCall
    /\ rconfig = NoConfig
    /\ \E ruleSet \in RuleSets \cup {NotARuleSet}, redactMode \in RedactModes,
          redactResponseURL \in BOOLEAN :
          LET x == NewStandalone(ruleSet, redactMode, redactResponseURL)
          IN  /\ rconfig' = x.config
              /\ call' = [fn |-> "StandaloneRedactionConfig",
                          args |-> [ruleSet |-> ruleSet, redactMode |-> redactMode,
                                    redactResponseURL |-> redactResponseURL],
                          out |-> [exc |-> x.exc]]
    /\ UNCHANGED handler

\* rc.add_rule_set(ruleSet) on a RedactionConfig
AddRuleSet ==
    /\ call = NoCall
    /\ rconfig.class = "RedactionConfig"
    /\ Len(rconfig.redactProperties) < MaxRuleSets
    /\ \E ruleSet \in RuleSets \cup {NotARuleSet} :
          LET x == add_rule_set(rconfig, ruleSet)
          IN  /\ rconfig' = x.config
              /\ call' = [fn |-> "add_rule_set",
                          args |-> [self |-> rconfig, ruleSet |-> ruleSet],
                          out |-> [exc |-> x.exc]]
    /\ UNCHANGED handler

\* rc.add_rule_set(ruleSet) on a StandaloneRedactionConfig
AddRuleSetToStandalone ==
    /\ call = NoCall
    /\ rconfig.class = "StandaloneRedactionConfig"
    /\ \E ruleSet \in RuleSets \cup {NotARuleSet} :
          LET x == StandaloneAddRuleSet(rconfig, ruleSet)
          IN  /\ rconfig' = x.config
              /\ call' = [fn |-> "add_rule_set",
                          args |-> [self |-> rconfig, ruleSet |-> ruleSet],
                          out |-> [exc |-> x.exc]]
    /\ UNCHANGED handler

\* rc._redact(event)
Redact ==
    /\ call = NoCall
    /\ rconfig # NoConfig
    /\ \E e \in RedactEvents :
          call' = [fn |-> "_redact", args |-> [event |-> e, again |-> FALSE],
                   out |-> _redact(rconfig, e)]
    /\ UNCHANGED <<handler, rconfig>>

\* rc._redact(sanitized), for the dict the call before returned
RedactAgain ==
    /\ call.fn = "_redact"
    /\ ~call.args.again
    /\ call.out.exc = None
    /\ call' = [fn |-> "_redact", args |-> [event |-> call.out.value, again |-> TRUE],
                out |-> _redact(rconfig, call.out.value)]
    /\ UNCHANGED <<handler, rconfig>>

RedactionReturn ==
    /\ call # NoCall
    /\ call' = NoCall
    /\ UNCHANGED <<handler, rconfig>>

RedactionInit ==
    /\ HandlerIdle
    /\ call = NoCall
    /\ rconfig = NoConfig

RedactionNext ==
    \/ ConstructRedactionConfig
    \/ ConstructStandalone
    \/ AddRuleSet
    \/ AddRuleSetToStandalone
    \/ Redact
    \/ RedactAgain
    \/ RedactionReturn

RedactionSpec == RedactionInit /\ [][RedactionNext]_vars

-----------------------------------------------------------------------------
(* Claims on accustom/redaction.py *)

\* C16: _redact never changes the request it is given: for every config,
\* in either mode, with or without URL redaction, the request after the
\* call equals the request before it, ResourceProperties,
\* OldResourceProperties and ResponseURL included.
C16_RedactLeavesRequest ==
    call.fn = "_redact" =>
        /\ call.out.after = call.args.event
        /\ is_valid_event(call.args.event) =>
              /\ call.out.exc = None
              /\ \A k \in PropKeys \cup {"ResponseURL"} :
                    k \in DOMAIN call.args.event =>
                        /\ k \in DOMAIN call.out.after
                        /\ call.out.after[k] = call.args.event[k]

C16_Witness ==
    /\ call.fn = "_redact"
    /\ call.out.exc = None
    /\ rconfig.redactMode = BLOCKLIST
    /\ rconfig.redactResponseURL
    /\ "ResourceProperties" \in DOMAIN call.args.event
    /\ call.args.event["ResourceProperties"]["Password"] = "hunter2"
    /\ call.out.value["ResourceProperties"]["Password"] = REDACTED_STRING
    /\ "ResponseURL" \notin DOMAIN call.out.value
    /\ call.out.after["ResourceProperties"]["Password"] = "hunter2"

\* The name of a property matches a property pattern of a rule set of the
\* config whose resource pattern matches the resource type of the request
Matched(rc, e, name) ==
    \E n \in DOMAIN rc.redactProperties :
        /\ Search(rc.redactProperties[n][1], e["ResourceType"])
        /\ \E m \in DOMAIN rc.redactProperties[n][2] :
              Match(rc.redactProperties[n][2][m], name)

\* C17: in the sanitized copy, ResourceProperties and OldResourceProperties
\* have the properties of the request; in BLOCKLIST mode a property is the
\* redaction marker exactly when its name matches a property pattern of a
\* rule set that applies to the resource type, and has its value
\* otherwise; in ALLOWLIST mode a property has its value exactly when its
\* name matches, and is the redaction marker otherwise.
C17_ModesComplement ==
    (call.fn = "_redact" /\ call.out.exc = None) =>
        LET e == call.args.event
            ec == call.out.value
        IN  \A k \in PropKeys :
                /\ k \in DOMAIN ec <=> k \in DOMAIN e
                /\ k \in DOMAIN e =>
                      /\ DOMAIN ec[k] = DOMAIN e[k]
                      /\ \A name \in DOMAIN e[k] :
                            ec[k][name] =
                                IF rconfig.redactMode = BLOCKLIST
                                THEN (IF Matched(rconfig, e, name)
                                      THEN REDACTED_STRING ELSE e[k][name])
                                ELSE (IF Matched(rconfig, e, name)
                                      THEN e[k][name] ELSE REDACTED_STRING)

C17_Witness ==
    /\ call.fn = "_redact"
    /\ call.out.exc = None
    /\ ~call.args.again
    /\ rconfig.redactMode = ALLOWLIST
    /\ Len(rconfig.redactProperties) = 2
    /\ rconfig.redactProperties[1][1] = "^Custom::Other$"
    /\ rconfig.redactProperties[2][2] = <<"^Pass">>
    /\ "OldResourceProperties" \in DOMAIN call.args.event
    /\ "ResourceProperties" \in DOMAIN call.args.event
    /\ call.out.value["ResourceProperties"] =
          ("Password" :> "hunter2") @@ ("PasswordHint" :> "pet")
          @@ ("Name" :> REDACTED_STRING)
    /\ call.out.value["OldResourceProperties"] =
          ("Password" :> "old") @@ ("Size" :> REDACTED_STRING)

\* C18 as stated: redacting the sanitized copy again under the same config
\* succeeds and gives that sanitized copy again.
C18_RedactIdempotent ==
    (call.fn = "_redact" /\ call.args.again) =>
        /\ call.out.exc = None
        /\ call.out.value = call.args.event

\* C18, amended: under a config without URL redaction, redacting the
\* sanitized copy again succeeds and gives that sanitized copy again; under
\* a config with URL redaction the sanitized copy has no ResponseURL, is no
\* valid request, and redacting it raises NotValidRequestObjectException.
C18_RedactIdempotentKeepingUrl ==
    (call.fn = "_redact" /\ call.args.again) =>
        IF rconfig.redactResponseURL
        THEN /\ "ResponseURL" \notin DOMAIN call.args.event
             /\ call.out.exc = "NotValidRequestObjectException"
        ELSE /\ call.out.exc = None
             /\ call.out.value = call.args.event

C18_Witness ==
    /\ call.fn = "_redact"
    /\ call.args.again
    /\ ~rconfig.redactResponseURL
    /\ rconfig.redactMode = ALLOWLIST
    /\ rconfig.redactProperties = << <<_RESOURCEREGEX_DEFAULT, <<"^Pass">> >> >>
    /\ "ResourceProperties" \in DOMAIN call.args.event
    /\ call.args.event["ResourceProperties"]["Name"] = REDACTED_STRING
    /\ call.args.event["ResourceProperties"]["Password"] = "hunter2"
    /\ call.out.exc = None
    /\ call.out.value = call.args.event

\* No rule set of the config applies to the resource type of the request
NoRuleSetApplies(rc, e) ==
    \A n \in DOMAIN rc.redactProperties :
        ~Search(rc.redactProperties[n][1], e["ResourceType"])

\* C19 as stated: when no rule set applies to the resource type of the
\* request, the sanitized copy equals the request.
C19_NoMatchIsIdentity ==
    (call.fn = "_redact" /\ call.out.exc = None
     /\ NoRuleSetApplies(rconfig, call.args.event))
        => call.out.value = call.args.event

\* The request with every property replaced by the redaction marker
AllRedacted(e) ==
    [k \in DOMAIN e |->
        IF k \in PropKeys THEN [name \in DOMAIN e[k] |-> REDACTED_STRING] ELSE e[k]]

\* C19, amended: when no rule set applies to the resource type of the
\* request, the sanitized copy equals the request in BLOCKLIST mode and is
\* the request with every property of ResourceProperties and
\* OldResourceProperties set to the redaction marker in ALLOWLIST mode; in
\* both modes ResponseURL is removed from it when the config redacts the
\* URL.
C19_NoMatchHidesOnlyByDefault ==
    (call.fn = "_redact" /\ call.out.exc = None
     /\ NoRuleSetApplies(rconfig, call.args.event)) =>
        LET e == call.args.event
            kept == IF rconfig.redactMode = BLOCKLIST THEN e ELSE AllRedacted(e)
        IN  call.out.value =
                (IF rconfig.redactResponseURL THEN WithoutKey(kept, "ResponseURL") ELSE kept)

C19_Witness ==
    /\ call.fn = "_redact"
    /\ ~call.args.again
    /\ call.out.exc = None
    /\ rconfig.redactMode = BLOCKLIST
    /\ ~rconfig.redactResponseURL
    /\ rconfig.redactProperties = << <<"^Custom::Other$", <<"^Name$">> >> >>
    /\ "ResourceProperties" \in DOMAIN call.args.event
    /\ call.args.event["ResourceProperties"]["Name"] = "db1"
    /\ call.out.value = call.args.event

\* C20: a StandaloneRedactionConfig holds exactly one rule set, under the
\* catch-all resource pattern, after its construction and after every
\* add_rule_set call: the constructor stores the property patterns of its
\* rule set under the catch-all pattern whatever resource pattern the rule
\* set had, and every add_rule_set call raises
\* CannotApplyRuleToStandaloneRedactionConfig, whatever its argument, and
\* leaves the config as it was.
C20_StandaloneOneRuleSet ==
    /\ rconfig.class = "StandaloneRedactionConfig" =>
          /\ Len(rconfig.redactProperties) = 1
          /\ rconfig.redactProperties[1][1] = _RESOURCEREGEX_DEFAULT
    /\ (call.fn = "StandaloneRedactionConfig" /\ call.out.exc = None) =>
          /\ rconfig.class = "StandaloneRedactionConfig"
          /\ rconfig.redactProperties =
                << <<_RESOURCEREGEX_DEFAULT, call.args.ruleSet.properties>> >>
    /\ (call.fn = "add_rule_set" /\ call.args.self.class = "StandaloneRedactionConfig") =>
          /\ call.out.exc = "CannotApplyRuleToStandaloneRedactionConfig"
          /\ rconfig = call.args.self

C20_Witness ==
    /\ call.fn = "add_rule_set"
    /\ call.args.self.class = "StandaloneRedactionConfig"
    /\ call.args.ruleSet = RedactionRuleSet("^Custom::Other$", <<add_property("Name")>>)
    /\ call.out.exc = "CannotApplyRuleToStandaloneRedactionConfig"
    /\ rconfig.redactProperties =
          << <<_RESOURCEREGEX_DEFAULT, <<add_property("Name"), add_property("Password")>> >> >>

\* C21: add_rule_set of a RedactionConfig, given a rule set whose resource
\* pattern the config already has, raises ConflictingValue and leaves the
\* rule mapping as it was; given a rule set with a new pattern it adds one
\* entry, from that pattern to the property patterns of the rule set, and
\* leaves every other entry as it was.
C21_AddRuleSet ==
    (/\ call.fn = "add_rule_set"
     /\ call.args.self.class = "RedactionConfig"
     /\ call.args.ruleSet.class = "RedactionRuleSet") =>
        LET before == call.args.self.redactProperties
            after == rconfig.redactProperties
            ruleSet == call.args.ruleSet
        IN  IF \E n \in DOMAIN before : before[n][1] = ruleSet.resourceRegex
            THEN /\ call.out.exc = "ConflictingValue"
                 /\ after = before
            ELSE /\ call.out.exc = None
                 /\ Len(after) = Len(before) + 1
                 /\ \A n \in DOMAIN before : after[n] = before[n]
                 /\ after[Len(after)] = <<ruleSet.resourceRegex, ruleSet.properties>>

C21_Witness ==
    /\ call.fn = "add_rule_set"
    /\ call.args.self.class = "RedactionConfig"
    /\ call.args.self.redactProperties = << <<"^Custom::Thing$", <<>> >> >>
    /\ call.args.ruleSet =
          RedactionRuleSet("^Custom::Thing$", <<add_property("Name"), add_property("Password")>>)
    /\ call.out.exc = "ConflictingValue"
    /\ rconfig = call.args.self

-----------------------------------------------------------------------------
(* Claims on the chaining stage of decorator.handler_wrapper *)

\* The envelopes the callback URL received from invocation i
DeliveredBy(i) == SelectSeq(sends, LAMBDA s : s.by = i /\ s.exc = None)

\* The chained invocation did not answer within the read timeout
ChildTimedOut == response.kind = "ReadTimeoutError"

\* The chained invocation answered with a function error
ChildFailed == response.kind = "response" /\ response.FunctionError

\* C22: when the chained invocation does not answer within the read
\* timeout, or answers with a function error, the parent never runs user
\* logic itself, and (the endpoint accepting the parent's PUTs) it ends by
\* returning, with one envelope delivered, which is FAILED and whose reason
\* is the timeout reason, respectively the child-error reason.
C22_ChainFailureDelivered ==
    (ChildTimedOut \/ ChildFailed) =>
        /\ funcCalls[Parent] = 0
        /\ (pc[Parent] \in Terminal /\ EndpointAcceptsFrom(Parent)) =>
              LET D == DeliveredBy(Parent)
              IN  /\ pc[Parent] = "done"
                  /\ Len(D) = 1
                  /\ D[1].body.Status = FAILED
                  /\ ret[Parent] = Returned(D[1].body)
                  /\ IF ChildTimedOut
                     THEN Contains(D[1].body.Reason,
                                   "Lambda function timed out, returning failure.")
                     ELSE Contains(D[1].body.Reason, "Invocation got an error: ")

\* The sends of the chaining stage (lines 151-189) of invocation i
ChainSendsOf(i) ==
    SelectSeq(sends, LAMBDA s : s.by = i /\ s.line \in {"chaintry", "chainsend"})

\* C23: when b_lambda.invoke fails with a transport error
\* (ConnectionError) or a permission error (ClientError), the chaining
\* stage sends nothing and the parent goes on to run user logic itself,
\* once, and to send its normalized result.
C23_InvokeErrorRunsLocally ==
    response.kind \in {"ClientError", "ConnectionError"} =>
        /\ ChainSendsOf(Parent) = <<>>
        /\ pc[Parent] \in {"exec", "send", "resend", "done", "raised"}
        /\ pc[Parent] # "exec" =>
              /\ funcCalls[Parent] = 1
              /\ Len(DeliverySendsOf(Parent)) >= 1 =>
                    DeliverySendsOf(Parent)[1].ro =
                        DeleteGuard(normalized[Parent], event[Parent],
                                    hideResourceDeleteFailure)

\* C23, amended: when b_lambda.invoke fails with a permission or other
\* client error (ClientError), the chaining stage sends nothing and the
\* parent goes on to run user logic itself, once, and to send its
\* normalized result; when it fails with a transport error
\* (ConnectionError), the parent does not run user logic: it sends one
\* FAILED envelope with the reason 'Unable to call Lambda to do chained
\* invoke, returning failure.' and the outcome of that send is the outcome
\* of the handler.
C23_OnlyClientErrorRunsLocally ==
    /\ response.kind = "ClientError" =>
          /\ ChainSendsOf(Parent) = <<>>
          /\ pc[Parent] \in {"exec", "send", "resend", "done", "raised"}
          /\ pc[Parent] # "exec" =>
                /\ funcCalls[Parent] = 1
                /\ Len(DeliverySendsOf(Parent)) >= 1 =>
                      DeliverySendsOf(Parent)[1].ro =
                          DeleteGuard(normalized[Parent], event[Parent],
                                      hideResourceDeleteFailure)
    /\ response.kind = "ConnectionError" =>
          LET S == ChainSendsOf(Parent)
          IN  /\ funcCalls[Parent] = 0
              /\ DeliverySendsOf(Parent) = <<>>
              /\ pc[Parent] \in {"chainsend", "done", "raised"}
              /\ pc[Parent] = "chainsend" <=> S = <<>>
              /\ Len(S) <= 1
              /\ Len(S) = 1 =>
                    /\ S[1].ro.responseStatus = FAILED
                    /\ S[1].ro.reason =
                          <<"Unable to call Lambda to do chained invoke, returning failure.">>
                    /\ IF S[1].exc = None
                       THEN /\ pc[Parent] = "done"
                            /\ S[1].body.Status = FAILED
                            /\ ret[Parent] = Returned(S[1].body)
                       ELSE /\ pc[Parent] = "raised"
                            /\ exc[Parent] = S[1].exc

C23_Witness ==
    /\ response.kind = "ClientError"
    /\ pc[Parent] = "done"
    /\ funcCalls[Parent] = 1
    /\ raw[Parent] = ReturnDict(SmallDict)
    /\ Len(sends) = 1
    /\ sends[1].line = "send"
    /\ sends[1].exc = None
    /\ sends[1].body.Status = SUCCESS

\* C24: when the chained invocation ends without a function error, the
\* parent sends nothing itself and returns the Payload of the response of
\* the chained call.
C24_ReturnsChildPayload ==
    (response.kind = "response" /\ ~response.FunctionError) =>
        /\ SendsOf(Parent) = <<>>
        /\ funcCalls[Parent] = 0
        /\ pc[Parent] = "done"
        /\ ret[Parent].kind = "payload"
        /\ ret[Parent].payload = response.Payload

-----------------------------------------------------------------------------
(* Claims on rdecorator and sdecorator *)

\* Invocation i is past the call of the wrapper of rdecorator
Executed(i) == pc[i] \in {"send", "resend", "done", "raised"} /\ raw[i] # NotRun

\* The expected properties the request of invocation i lacks, in the order
\* of the list
MissingProperties(i) ==
    SelectSeq(expectedProperties.items,
              LAMBDA item : \/ "ResourceProperties" \notin DOMAIN event[i]
                            \/ item \notin DOMAIN event[i]["ResourceProperties"])

\* C25: with a list of expectedProperties, the wrapper of rdecorator calls
\* the function only when the request's ResourceProperties have every
\* property of the list; when one is missing it returns, without calling
\* the function, a FAILED ResponseObject whose reason names the first
\* missing property and whose physical resource id is the request's, and
\* under sdecorator that object is the first one sent (unless the delete
\* guard replaces it).
C25_ExpectedProperties ==
    \A i \in Invocations :
        (/\ Executed(i)
         /\ expectedProperties.kind = "list"
         /\ ~(decoratorHandleDelete /\ event[i]["RequestType"] = DELETE)) =>
            LET missing == MissingProperties(i)
                S == DeliverySendsOf(i)
            IN  IF missing = <<>>
                THEN funcCalls[i] = 1
                ELSE /\ funcCalls[i] = 0
                     /\ raw[i].kind = "return"
                     /\ raw[i].type = "ResponseObject"
                     /\ raw[i].ro.responseStatus = FAILED
                     /\ raw[i].ro.reason =
                           <<"Property ", missing[1], " missing, sending failure signal">>
                     /\ raw[i].ro.physicalResourceId =
                           (IF "PhysicalResourceId" \in DOMAIN event[i]
                            THEN event[i]["PhysicalResourceId"] ELSE None)
                     /\ (Len(S) >= 1
                         /\ ~(hideResourceDeleteFailure /\ event[i]["RequestType"] = DELETE))
                           => S[1].ro = raw[i].ro

\* C26 as stated: with decoratorHandleDelete, the wrapper of rdecorator
\* answers a Delete request with a SUCCESS ResponseObject that has the
\* request's PhysicalResourceId, without calling the function, and calls
\* the function for every Create and Update request.
C26_DeleteHandledOthersRun ==
    \A i \in Invocations :
        (Executed(i) /\ decoratorHandleDelete) =>
            IF event[i]["RequestType"] = DELETE
            THEN /\ funcCalls[i] = 0
                 /\ raw[i] = ReturnObject(ResponseObject(NoData, event[i]["PhysicalResourceId"],
                                                         NoReason, SUCCESS))
            ELSE funcCalls[i] = 1

\* C26, amended: with decoratorHandleDelete, the wrapper of rdecorator
\* answers a Delete request with a SUCCESS ResponseObject that has the
\* request's PhysicalResourceId, without calling the function and without
\* looking at expectedProperties; for a Create or Update request it calls
\* the function when expectedProperties is no list or every property of
\* the list is in the request's ResourceProperties, and does not call it
\* when one is missing.
C26_DeleteHandledOthersChecked ==
    \A i \in Invocations :
        (Executed(i) /\ decoratorHandleDelete) =>
            IF event[i]["RequestType"] = DELETE
            THEN /\ funcCalls[i] = 0
                 /\ raw[i] = ReturnObject(ResponseObject(NoData, event[i]["PhysicalResourceId"],
                                                         NoReason, SUCCESS))
            ELSE funcCalls[i] = (IF MissingProperties(i) = <<>> THEN 1 ELSE 0)

C26_Witness ==
    /\ decoratorHandleDelete
    /\ expectedProperties = PropertyList(<<"key1", "key2">>)
    /\ event[Parent]["RequestType"] = DELETE
    /\ "ResourceProperties" \notin DOMAIN event[Parent]
    /\ pc[Parent] = "done"
    /\ funcCalls[Parent] = 0
    /\ Len(sends) = 1
    /\ sends[1].body.Status = SUCCESS
    /\ sends[1].body.PhysicalResourceId = "phys-1"

\* C27 as stated: from its validation on, the request object of an
\* invocation is never changed by the handler: no step of decorator,
\* rdecorator or sdecorator modifies it.
C27_RequestNeverModified ==
    [][\A i \in Invocations : pc[i] \notin {"idle", "start"} => event'[i] = event[i]]_vars

\* C27, amended: from its validation on, the only change the handler makes
\* to the request object of an invocation is that rdecorator (and so
\* sdecorator) with genUUID adds a generated PhysicalResourceId to a
\* request that has none; every field the request had keeps its value, and
\* the chaining tag goes into the copy sent to the child.
C27_OnlyGeneratedIdAdded ==
    [][\A i \in Invocations :
          pc[i] \notin {"idle", "start"} =>
              \/ event'[i] = event[i]
              \/ /\ genUUID
                 /\ pc[i] = "exec"
                 /\ "PhysicalResourceId" \notin DOMAIN event[i]
                 /\ event'[i] = WithKey(event[i], "PhysicalResourceId", Uuid)]_vars

C27_Witness ==
    /\ genUUID
    /\ timeoutFunction
    /\ pc[Parent] = "done"
    /\ pc[Child] = "done"
    /\ "PhysicalResourceId" \notin DOMAIN event[Parent]
    /\ "LambdaParentRequestId" \notin DOMAIN event[Parent]
    /\ event[Child] =
          WithKey(WithKey(event[Parent], "LambdaParentRequestId", aws_request_id(Parent)),
                  "PhysicalResourceId", Uuid)

\* The positions of the chaining stage, lines 128-189
ChainStage == {"invoke", "waiting", "chaintry", "chainsend"}

\* C28: an invocation attempts to chain only when timeoutFunction is set,
\* it has a context and its request has no LambdaParentRequestId; the
\* request sent to the child is the parent's request plus that tag, so the
\* child never attempts to chain: at most one chained invocation is
\* started per request.
C28_ChainOnceUntagged ==
    /\ \A i \in Invocations :
          (pc[i] \in ChainStage \/ (i = Parent /\ response # NoResponse)) =>
              /\ timeoutFunction
              /\ context[i] # None
              /\ "LambdaParentRequestId" \notin DOMAIN event[i]
    /\ invokes <= 1
    /\ pc[Child] # "idle" =>
          /\ invokes = 1
          /\ event[Child] = WithKey(event[Parent], "LambdaParentRequestId",
                                    aws_request_id(context[Parent]))
          /\ pc[Child] \notin ChainStage

C28_Witness ==
    /\ timeoutFunction
    /\ invokes = 1
    /\ context[Child] # None
    /\ "LambdaParentRequestId" \in DOMAIN event[Child]
    /\ pc[Child] = "done"
    /\ funcCalls[Child] = 1
    /\ pc[Parent] = "done"
    /\ funcCalls[Parent] = 0

\* C29: the read timeout of the chained call is the remaining time minus
\* the 2000 ms threshold, clamped to the minimum of one second: whenever
\* the call was made it is positive and never below that minimum.
C29_ReadTimeoutClamped ==
    response # NoResponse =>
        /\ readTimeout > 0
        /\ readTimeout >= TIMEOUT_THRESHOLD \div 2

-----------------------------------------------------------------------------
(* Claims on the delivery of cfnresponse *)

\* C30: cfnresponse raises FailedToSendResponseException exactly when the
\* PUT raises or is answered with a status code outside 200-299; for every
\* answer from 200 to 299 it returns the envelope that was sent.
C30_FailsExactlyOnNon2xx ==
    call.fn = "cfnresponse" =>
        LET put == call.args.put
            is2xx == ~put.raised /\ put.status_code \div 100 = 2
        IN  /\ call.out.exc = "FailedToSendResponseException"
                  <=> (call.out.put /\ ~is2xx)
            /\ (call.out.put /\ is2xx) =>
                  /\ call.out.exc = None
                  /\ call.out.body = BodyOf(call.args)

\* C30 as the code has it: the exception is raised exactly when the PUT
\* raises or is answered with a status code other than 200; for the answer
\* 200 the envelope that was sent is returned.
C30_FailsExactlyOnNon200 ==
    call.fn = "cfnresponse" =>
        LET put == call.args.put
            is200 == ~put.raised /\ put.status_code = 200
        IN  /\ call.out.exc = "FailedToSendResponseException"
                  <=> (call.out.put /\ ~is200)
            /\ (call.out.put /\ is200) =>
                  /\ call.out.exc = None
                  /\ call.out.body = BodyOf(call.args)

C30_Witness ==
    /\ call.fn = "cfnresponse"
    /\ call.out.put
    /\ ~call.args.put.raised
    /\ call.args.put.status_code = 204
    /\ call.out.exc = "FailedToSendResponseException"

\* C31: the size cfnresponse compares with the limit and sends as
\* content-length is the byte length of the serialized body: a body
\* shorter than 4096 bytes is PUT, and the content-length header of a PUT
\* equals the number of bytes of its body.
C31_SizeIsByteLength ==
    (call.fn = "cfnresponse" /\ call.out.exc \notin EarlierErrors) =>
        /\ JsonLen(BodyOf(call.args)) < CUSTOM_RESOURCE_SIZE_LIMIT => call.out.put
        /\ call.out.put => ContentLength(call.out.body) = JsonLen(call.out.body)

-----------------------------------------------------------------------------
(* Claims on RedactionConfig._redact with several rule sets *)

\* The config with its rule sets attached in the opposite order
Reversed(rc) ==
    [rc EXCEPT !.redactProperties =
        [n \in DOMAIN @ |-> @[Len(@) + 1 - n]]]

\* The config without the rule sets whose resource pattern does not match
\* the resource type of the request
OnlyMatching(rc, e) ==
    [rc EXCEPT !.redactProperties =
        SelectSeq(@, LAMBDA rule : Search(rule[1], e["ResourceType"]))]

\* The rule sets of the config whose resource pattern matches the resource
\* type of the request
MatchingRuleSets(rc, e) ==
    {n \in DOMAIN rc.redactProperties :
        Search(rc.redactProperties[n][1], e["ResourceType"])}

\* C32: redaction is cumulative over rule sets: a property is the redaction
\* marker in BLOCKLIST mode (has its value in ALLOWLIST mode) exactly when
\* its name matches a property pattern of at least one rule set whose
\* resource pattern matches; the result is the same with the rule sets
\* attached in the opposite order, and the same without the rule sets whose
\* resource pattern does not match.
C32_CumulativeRuleSets ==
    (call.fn = "_redact" /\ ~call.args.again /\ call.out.exc = None) =>
        LET e == call.args.event
            ec == call.out.value
            hit(name) ==
                \E n \in MatchingRuleSets(rconfig, e) :
                    \E m \in DOMAIN rconfig.redactProperties[n][2] :
                        Match(rconfig.redactProperties[n][2][m], name)
        IN  /\ \A k \in PropKeys \cap DOMAIN e : \A name \in DOMAIN e[k] :
                  /\ name \in DOMAIN ec[k]
                  /\ rconfig.redactMode = BLOCKLIST =>
                        (ec[k][name] = REDACTED_STRING <=> hit(name))
                  /\ rconfig.redactMode = ALLOWLIST =>
                        (ec[k][name] = e[k][name] <=> hit(name))
            /\ call.out = _redact(Reversed(rconfig), e)
            /\ call.out = _redact(OnlyMatching(rconfig, e), e)

C32_Witness ==
    /\ call.fn = "_redact"
    /\ ~call.args.again
    /\ call.out.exc = None
    /\ rconfig.redactMode = BLOCKLIST
    /\ Len(rconfig.redactProperties) = 2
    /\ MatchingRuleSets(rconfig, call.args.event) = {1, 2}
    /\ rconfig.redactProperties[1][2] = <<add_property("Name"), add_property("Password")>>
    /\ rconfig.redactProperties[2][2] = <<"^Pass">>
    /\ "ResourceProperties" \in DOMAIN call.args.event
    /\ call.out.value["ResourceProperties"] =
          ("Password" :> REDACTED_STRING) @@ ("PasswordHint" :> REDACTED_STRING)
          @@ ("Name" :> REDACTED_STRING)

-----------------------------------------------------------------------------
(* Further claims on decorator.handler_wrapper *)

\* b_lambda.invoke could not reach the Lambda service
NoConnection == response.kind = "ConnectionError"

\* C33: when b_lambda.invoke fails with a ConnectionError, no child runs and
\* the parent never runs user logic; (the endpoint accepting its PUT) it
\* ends by returning, and the one envelope delivered for the request is
\* FAILED.
C33_NoConnectionFails ==
    NoConnection =>
        /\ funcCalls[Parent] = 0
        /\ pc[Child] = "idle"
        /\ funcCalls[Child] = 0
        /\ (pc[Parent] \in Terminal /\ EndpointAcceptsFrom(Parent)) =>
              /\ pc[Parent] = "done"
              /\ Len(Delivered) = 1
              /\ Delivered[1].by = Parent
              /\ Delivered[1].body.Status = FAILED
              /\ ret[Parent] = Returned(Delivered[1].body)

C33_Witness ==
    /\ NoConnection
    /\ pc[Parent] = "done"
    /\ Len(Delivered) = 1
    /\ Delivered[1].body.Status = FAILED
    /\ event[Parent]["RequestType"] = CREATE
    /\ ~hideResourceDeleteFailure

\* C34: when user logic raises, the FAILED result gets a synthesized
\* physical resource id only if the request has none and there is no
\* context; when the request has a PhysicalResourceId, every FAILED
\* envelope delivered for it carries the request's id.
C34_FreshIdOnlyWhenNone ==
    \A i \in Invocations :
        raw[i].kind = "raise" =>
            /\ normalized[i].physicalResourceId # None =>
                  /\ context[i] = None
                  /\ "PhysicalResourceId" \notin DOMAIN event[i]
            /\ "PhysicalResourceId" \in DOMAIN event[i] =>
                  \A k \in DOMAIN sends :
                      (sends[k].by = i /\ sends[k].exc = None
                       /\ sends[k].body.Status = FAILED) =>
                          sends[k].body.PhysicalResourceId = event[i]["PhysicalResourceId"]

\* The invocation has not attempted a chained call
Unchained(i) == i = Parent /\ invokes = 0 /\ response = NoResponse

\* The sends of invocation i that issued a PUT
PutsOf(i) == SelectSeq(sends, LAMBDA s : s.by = i /\ s.put)

\* C35: an invocation that is not chained calls send at most twice and
\* issues at most one PUT; the second send comes only after the first
\* failed without a PUT, never after a PUT was attempted.  The same holds
\* of the sends of lines 274-324 of every invocation.
C35_AtMostOnePut ==
    \A i \in Invocations :
        LET S == DeliverySendsOf(i)
        IN  /\ Unchained(i) =>
                  /\ SendsOf(i) = S
                  /\ Len(SendsOf(i)) <= 2
                  /\ Len(PutsOf(i)) <= 1
            /\ Len(S) <= 2
            /\ Len(SelectSeq(S, LAMBDA s : s.put)) <= 1
            /\ Len(S) = 2 =>
                  /\ ~S[1].put
                  /\ S[1].exc \notin {None, "FailedToSendResponseException"}
            /\ (Len(S) >= 1 /\ S[1].put) => pc[i] \in {"done", "raised"}

C35_Witness ==
    /\ Unchained(Parent)
    /\ pc[Parent] = "done"
    /\ Len(SendsOf(Parent)) = 2
    /\ ~sends[1].put
    /\ sends[1].exc = "DataIsNotDictException"
    /\ sends[2].put
    /\ sends[2].exc = None

\* C36: user logic is called at most once per invocation and only for a
\* valid request; the parent does not call it when the chained call
\* answered, timed out or failed with a connection or unknown error, and
\* calls it itself only when it did not attempt chaining or the invoke
\* failed with a ClientError.
C36_UserLogicOnce ==
    /\ \A i \in Invocations :
          /\ funcCalls[i] <= 1
          /\ funcCalls[i] = 1 => is_valid_event(event[i])
          /\ funcCalls[i] = 1 <=> raw[i] # NotRun
          /\ ~is_valid_event(event[i]) => pc[i] \in {"start", "raised", "idle"}
    /\ response.kind \in {"response", "ReadTimeoutError", "ConnectionError", "Exception"} =>
          funcCalls[Parent] = 0
    /\ funcCalls[Parent] = 1 =>
          /\ response.kind \in {"none", "ClientError"}
          /\ response.kind = "none" =>
                (~timeoutFunction \/ context[Parent] = None)
          /\ pc[Child] = "idle"
    /\ funcCalls[Parent] + funcCalls[Child] <= 1

C36_Witness ==
    /\ timeoutFunction
    /\ response.kind = "ClientError"
    /\ funcCalls[Parent] = 1
    /\ pc[Parent] = "done"
    /\ raw[Parent] = ReturnDict(SmallDict)

\* C37: with hideResourceDeleteFailure, no FAILED envelope is delivered
\* for a Delete request, by any send of the handler.
C37_NoFailedDelete ==
    hideResourceDeleteFailure =>
        \A k \in DOMAIN sends :
            (sends[k].exc = None /\ event[sends[k].by]["RequestType"] = DELETE) =>
                sends[k].body.Status # FAILED

-----------------------------------------------------------------------------
(* decorator with a redactConfig: the handler of Spec, with the config in   *)
(* rconfig and requests that have properties to hide                        *)

\* The redactConfig of the decorator: none, a BLOCKLIST config that hides
\* Password, and an ALLOWLIST config without rule sets, which hides all
RedactConfigs ==
    {NoConfig,
     add_rule_set(NewConfig("RedactionConfig", BLOCKLIST, TRUE).config,
                  RedactionRuleSet(_RESOURCEREGEX_DEFAULT,
                                   <<add_property("Password")>>)).config,
     NewConfig("RedactionConfig", ALLOWLIST, FALSE).config}

LoggedEvents ==
    {WithKey(WithKey(BaseEvent(rt, GoodUrl), "PhysicalResourceId", "phys-1"),
             "ResourceProperties", props) :
        rt \in {CREATE, DELETE}, props \in {Properties1, LargeProperties}}

LoggingInit ==
    /\ enforceUseOfClass \in BOOLEAN
    /\ hideResourceDeleteFailure \in BOOLEAN
    /\ timeoutFunction \in BOOLEAN
    /\ NoResourceDecorator
    /\ \E e \in LoggedEvents :
          event = [i \in Invocations |-> IF i = Parent THEN e ELSE NoEvent]
    /\ \E c \in {None, Parent} : context = [i \in Invocations |-> IF i = Parent THEN c ELSE None]
    /\ pc = [i \in Invocations |-> IF i = Parent THEN "start" ELSE "idle"]
    /\ raw = [i \in Invocations |-> NotRun]
    /\ normalized = [i \in Invocations |-> NoObject]
    /\ result = [i \in Invocations |-> NoObject]
    /\ pending = [i \in Invocations |-> NoExc]
    /\ exc = [i \in Invocations |-> None]
    /\ ret = [i \in Invocations |-> NoRet]
    /\ funcCalls = [i \in Invocations |-> 0]
    /\ readTimeout = 0
    /\ invokes = 0
    /\ response = NoResponse
    /\ sends = <<>>
    /\ call = NoCall
    /\ rconfig \in RedactConfigs

LoggingSpec == LoggingInit /\ [][Next]_vars

\* lines 195-202: the record 'Request Body' of the debug log
RequestBodyLog(rc, e) ==
    <<"Request Body:\n">>
        \o EventPieces(IF rc # NoConfig THEN _redact(rc, e).value ELSE e)

\* The records of the log of invocation i that hold request data: the
\* request body (line 197) once the handler has passed the chaining stage,
\* and the message of line 150 once the child has answered with an error
LogOf(i) ==
    (IF pc[i] = "exec" \/ funcCalls[i] > 0
     THEN {RequestBodyLog(rconfig, event[i])} ELSE {})
    \cup (IF i = Parent /\ ChildFailed
          THEN {ChildErrorMessage(event[Child])} ELSE {})

\* The values of the properties of the request that the config hides
HiddenValues(rc, e) ==
    IF rc = NoConfig \/ ~is_valid_event(e) THEN {}
    ELSE LET ec == _redact(rc, e).value
         IN  UNION {{e[k][name] : name \in {m \in DOMAIN e[k] : ec[k][m] # e[k][m]}} :
                       k \in PropKeys \cap DOMAIN e}

\* C38: with a redaction config, the value of a property the config hides
\* never appears in a log record of the handler nor in the reason of an
\* envelope it sends.
C38_HiddenValuesNeverShown ==
    \A i \in Invocations :
        pc[i] # "idle" =>
            \A v \in HiddenValues(rconfig, event[i]) :
                /\ \A rec \in LogOf(i) : ~Contains(rec, v)
                /\ \A k \in DOMAIN sends :
                      sends[k].by = i => ~Contains(sends[k].ro.reason, v)

-----------------------------------------------------------------------------
(* Claims on the frame of RedactionConfig._redact *)

\* C39: the sanitized copy has the keys of the request, without
\* ResponseURL exactly when the config redacts the URL; every field other
\* than ResourceProperties and OldResourceProperties equals the request's;
\* both dicts of properties have the keys they have in the request, in
\* either mode, and each value is the request's value or the redaction
\* marker.
C39_RedactFrame ==
    (call.fn = "_redact" /\ call.out.exc = None) =>
        LET e == call.args.event
            ec == call.out.value
        IN  /\ DOMAIN ec = IF rconfig.redactResponseURL
                           THEN DOMAIN e \ {"ResponseURL"} ELSE DOMAIN e
            /\ ~rconfig.redactResponseURL => ec["ResponseURL"] = e["ResponseURL"]
            /\ \A k \in DOMAIN ec \ PropKeys : ec[k] = e[k]
            /\ \A k \in PropKeys \cap DOMAIN e :
                  /\ DOMAIN ec[k] = DOMAIN e[k]
                  /\ \A name \in DOMAIN e[k] :
                        ec[k][name] \in {e[k][name], REDACTED_STRING}

C39_Witness ==
    /\ call.fn = "_redact"
    /\ ~call.args.again
    /\ call.out.exc = None
    /\ rconfig.redactMode = BLOCKLIST
    /\ rconfig.redactResponseURL
    /\ "ResponseURL" \notin DOMAIN call.out.value
    /\ "OldResourceProperties" \in DOMAIN call.args.event
    /\ call.out.value["OldResourceProperties"] =
          ("Password" :> REDACTED_STRING) @@ ("Size" :> "10")
    /\ call.out.value["RequestId"] = call.args.event["RequestId"]

====
